---------------------------- MODULE TableService ----------------------------
(***************************************************************************)
(* What the tables of tables/tables.go promise the queries that use them,  *)
(* with no slot to wait for, no timer, no goroutine and no panic.  The     *)
(* tables share one outcome of a load, an answer or a failure, for at most *)
(* TTL ("Five minutes bounds how stale a row can be ... failures are       *)
(* remembered as well as successes").  One load runs at a time, and an     *)
(* answer is one generation of the hive, the one there was at a moment of  *)
(* the load; so answers do not go back in time.                            *)
(***************************************************************************)
EXTENDS Integers

CONSTANTS Queries, TTL, MaxGeneration

VARIABLES
  content,  \* generation of the hive and its logs
  stamp,    \* generation of the last write to the primary file
  phase,    \* of each call: "idle", "asked", "loading" or "answered"
  gone,     \* whether the caller of each call went away
  low,      \* stamp the call looked at, 0 when it did not
  answer,   \* generation the call loads or is answered with
  shared,   \* outcome the tables share: a generation, Failure or Nothing
  seen,     \* stamp some call looked at last
  age       \* time since the last shared load ended, up to just past the TTL

outcome == <<shared, seen, age>>
svars   == <<content, stamp, phase, gone, low, answer, outcome>>

Nothing == 0
Failure == -1

SInit ==
  /\ content = 1
  /\ stamp = 1
  /\ phase = [q \in Queries |-> "idle"]
  /\ gone = [q \in Queries |-> FALSE]
  /\ low = [q \in Queries |-> 0]
  /\ answer = [q \in Queries |-> 0]
  /\ shared = Nothing
  /\ seen = 0
  /\ age = TTL + 1

Ask(q) ==
  /\ phase[q] = "idle"
  /\ phase' = [phase EXCEPT ![q] = "asked"]
  /\ UNCHANGED <<content, stamp, gone, low, answer, outcome>>

GoAway(q) ==
  /\ phase[q] # "idle"
  /\ ~gone[q]
  /\ gone' = [gone EXCEPT ![q] = TRUE]
  /\ UNCHANGED <<content, stamp, phase, low, answer, outcome>>

\* The call looks at the primary file: what is shared is given up if it moved.
Look(q) ==
  /\ phase[q] = "asked"
  /\ low[q] = 0
  /\ low' = [low EXCEPT ![q] = stamp]
  /\ seen' = stamp
  /\ shared' = IF stamp = seen THEN shared ELSE Nothing
  /\ UNCHANGED <<content, stamp, phase, gone, answer, age>>

\* The hive may be read: nothing is shared, or it has been for long enough.
MayLoad == shared = Nothing \/ age > TTL

\* The call reads the hive as it is now, and no other call is loading.
Load(q) ==
  /\ phase[q] = "asked"
  /\ MayLoad
  /\ \A r \in Queries : phase[r] # "loading"
  /\ phase' = [phase EXCEPT ![q] = "loading"]
  /\ answer' = [answer EXCEPT ![q] = content]
  /\ UNCHANGED <<content, stamp, gone, low, outcome>>

\* The call is answered with what it loaded, and shares it.
AnswerForAll(q) ==
  /\ phase[q] = "loading"
  /\ low[q] <= answer[q]
  /\ phase' = [phase EXCEPT ![q] = "answered"]
  /\ shared' = answer[q]
  /\ age' = 0
  /\ UNCHANGED <<content, stamp, gone, low, answer, seen>>

\* The call is served what another call loaded.
AnswerAgain(q) ==
  /\ phase[q] = "asked"
  /\ shared \in 1..content
  /\ age <= TTL
  /\ low[q] <= shared
  /\ phase' = [phase EXCEPT ![q] = "answered"]
  /\ answer' = [answer EXCEPT ![q] = shared]
  /\ UNCHANGED <<content, stamp, gone, low, outcome>>

Leave(q) ==
  /\ phase' = [phase EXCEPT ![q] = "idle"]
  /\ gone' = [gone EXCEPT ![q] = FALSE]
  /\ low' = [low EXCEPT ![q] = 0]
  /\ answer' = [answer EXCEPT ![q] = 0]

\* The call's load fails with its caller still there, and the tables share that.
FailForAll(q) ==
  /\ phase[q] \in {"asked", "loading"}
  /\ ~gone[q]
  /\ MayLoad
  /\ Leave(q)
  /\ shared' = Failure
  /\ age' = 0
  /\ UNCHANGED <<content, stamp, seen>>

\* The answer is delivered, or the call fails alone or with the shared failure: no
\* other call can tell.
Finish(q) ==
  /\ phase[q] # "idle"
  /\ Leave(q)
  /\ UNCHANGED <<content, stamp, outcome>>

\* What is shared is dropped, once it has been shared for the TTL.
Drop ==
  /\ age >= TTL
  /\ shared' = Nothing
  /\ UNCHANGED <<content, stamp, phase, gone, low, answer, seen, age>>

WritePrimary ==
  /\ content < MaxGeneration
  /\ content' = content + 1
  /\ stamp' = content + 1
  /\ UNCHANGED <<phase, gone, low, answer, outcome>>

WriteLog ==
  /\ content < MaxGeneration
  /\ content' = content + 1
  /\ UNCHANGED <<stamp, phase, gone, low, answer, outcome>>

Tick ==
  /\ age' = IF age > TTL THEN age ELSE age + 1
  /\ UNCHANGED <<content, stamp, phase, gone, low, answer, shared, seen>>

SNext ==
  \/ \E q \in Queries :
       \/ Ask(q) \/ GoAway(q) \/ Look(q) \/ Load(q)
       \/ AnswerForAll(q) \/ AnswerAgain(q) \/ FailForAll(q) \/ Finish(q)
  \/ Drop
  \/ WritePrimary
  \/ WriteLog
  \/ Tick

SSpec == SInit /\ [][SNext]_svars

=============================================================================
