---------------------------- MODULE RequestLimiter ----------------------------
(***************************************************************************)
(* The fixed window limiter of internal/httpapi/limiter.go, which every    *)
(* handler asks first: allowRequest by address and endpoint, login by      *)
(* address and account, takeMail by address and recipient.                 *)
(*                                                                         *)
(* Time passes in ticks.  An entry holds the number of requests counted in *)
(* its window and the ticks left until its reset; reset <= now is left = 0,*)
(* and the entry remains until its key is used again or the full table is  *)
(* purged.                                                                 *)
(***************************************************************************)
EXTENDS Naturals, FiniteSets

CONSTANTS
    Keys,
    Limit,          \* requests per window
    Window,         \* ticks
    MaxEntries      \* keys the table holds

ASSUME LimiterAssumption ==
    /\ Limit \in Nat \ {0} /\ Window \in Nat \ {0} /\ MaxEntries \in Nat \ {0}

VARIABLES
    states,         \* the table: keys to entries
    admitted        \* requests of a key admitted in the last ticks (history)

limiterVars == <<states, admitted>>

Ages == 0 .. Window - 1

LimiterInit ==
    /\ states = [k \in {} |-> 0]
    /\ admitted = [k \in Keys |-> [age \in Ages |-> 0]]

Live(k) == k \in DOMAIN states /\ states[k].left > 0
Full(keys) == Cardinality(keys) >= MaxEntries

(* Mutant: the full table is emptied.                                      *)
RemainingNone(k) ==
    IF k \notin DOMAIN states /\ Full(DOMAIN states) THEN {} ELSE DOMAIN states

(* The keys that remain when k is looked up: an unknown key that meets a   *)
(* full table has the entries that are over removed.                       *)
Remaining(k) ==
    IF k \notin DOMAIN states /\ Full(DOMAIN states)
    THEN {j \in DOMAIN states : Live(j)}
    ELSE DOMAIN states

Store(k, entry) ==
    states' = [j \in Remaining(k) \cup {k} |-> IF j = k THEN entry ELSE states[j]]
Purge(k) == states' = [j \in Remaining(k) |-> states[j]]

Fits(k) == k \in DOMAIN states \/ ~Full(Remaining(k))

(* Mutant: a window that is over is not replaced.                          *)
CurrentForever(k) ==
    IF k \in DOMAIN states THEN states[k] ELSE [count |-> 0, left |-> Window]
Current(k) == IF Live(k) THEN states[k] ELSE [count |-> 0, left |-> Window]

(* A window that is over is replaced, one that is full is kept.            *)
Admits(k) == Fits(k) /\ Current(k).count < Limit

(* Take, in its two answers.                                               *)
Admit(k) ==
    /\ Admits(k)
    /\ Store(k, [Current(k) EXCEPT !.count = @ + 1])
    /\ admitted' = [admitted EXCEPT ![k][0] = @ + 1]

Refuse(k) ==
    /\ ~Admits(k)
    /\ IF Fits(k) THEN Store(k, Current(k)) ELSE Purge(k)
    /\ UNCHANGED admitted

(* A Login that succeeds gives the address its attempts back.              *)
Reset(k) ==
    /\ k \in DOMAIN states
    /\ states' = [j \in DOMAIN states \ {k} |-> states[j]]
    /\ admitted' = [admitted EXCEPT ![k] = [age \in Ages |-> 0]]

Tick ==
    /\ states' = [k \in DOMAIN states |->
                    [states[k] EXCEPT !.left = IF @ = 0 THEN 0 ELSE @ - 1]]
    /\ admitted' = [k \in Keys |->
                      [age \in Ages |-> IF age = 0 THEN 0 ELSE admitted[k][age - 1]]]

-----------------------------------------------------------------------------
(* Properties                                                              *)

(* The requests of a key in the last ticks: the tick of each and its       *)
(* number there.                                                           *)
Counted(k) == UNION {{age} \X (1 .. admitted[k][age]) : age \in Ages}

(* However the purge, the reset of a window and the requests of other keys *)
(* fall, no key is admitted twice the limit within the length of a window, *)
(* and the table keeps its bound (Take).                                   *)
LimitHolds ==
    /\ Cardinality(DOMAIN states) <= MaxEntries
    /\ \A k \in Keys : Cardinality(Counted(k)) < 2 * Limit
=============================================================================
