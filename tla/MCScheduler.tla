---------------------------- MODULE MCScheduler ----------------------------
(***************************************************************************)
(* Small instances of Scheduler: two calls that meet in one wave or wait   *)
(* for each other, and batches that queue behind them.                     *)
(***************************************************************************)
EXTENDS Scheduler, TLC

CONSTANTS b1, b2, b3, c1, c2, c3, c4, c5,
          read, write, shell, topic, unknown

\* Two calls in one batch, a third call in a batch of its own.
TwoBatches == b1 :> <<c1, c2>> @@ b2 :> <<c3>>
\* Three calls in one batch, a fourth call in a batch of its own.
LongBatches == b1 :> <<c1, c2, c3>> @@ b2 :> <<c4>>
\* As above, and a third batch.
ThreeBatches == LongBatches @@ b3 :> <<c5>>
\* One batch of two calls.
OnePair == b1 :> <<c1, c2>>

AllRead     == [c \in Call |-> read]
AllWrite    == [c \in Call |-> write]
AskFirst    == [AllRead EXCEPT ![c1] = write]
Mixed       == c1 :> write @@ c2 :> shell @@ c3 :> read
TopicLast   == [AllRead EXCEPT ![c2] = write, ![c3] = topic]

\* Reading is allowed, writing asks, the shell asks, topics are allowed; and three
\* variations.
UsualPolicy == read :> "allow" @@ write :> "ask" @@ shell :> "ask" @@
               topic :> "allow" @@ unknown :> "allow"
ShellDenied == [UsualPolicy EXCEPT ![shell] = "deny"]
ReadAsks    == [UsualPolicy EXCEPT ![read] = "ask"]
ReadDenied  == [UsualPolicy EXCEPT ![read] = "deny"]
=============================================================================
