---------------------------- MODULE ClientProofs ----------------------------
(***************************************************************************)
(* Proofs about the web client for any number of runs, chains, polls and   *)
(* faults: the run sheet shows one run's records, whatever order the reads *)
(* are answered in, a chain's steps run in order, whatever the network     *)
(* does to the page's requests, and the Activity list is one piece of its  *)
(* scope's history, whatever order its pages come in.                      *)
(***************************************************************************)
EXTENDS RunSheet, RunQueue, ActivityFeed, SequenceTheorems, FiniteSetTheorems, WellFoundedInduction,
        TLAPS

-----------------------------------------------------------------------------
(* The run sheet. *)

SheetShape ==
  /\ opened \in 0 .. MaxOpen
  /\ open \in Opening \cup {Nothing}
  /\ loads \subseteq Loading

\* A read that asked for the opening now shown asked for its run, and every answer is of the
\* run it was asked for.
Asked ==
  /\ open # Nothing => open.id <= opened
  /\ \A l \in loads :
       /\ l.open.id <= opened
       /\ open # Nothing /\ l.open.id = open.id => l.open.run = open.run
       /\ \A j \in Jobs : l.answers[j] # Nothing => l.answers[j].run = l.open.run

SheetInv == SheetShape /\ Asked /\ SheetIsOfItsRun

LEMMA SheetInitInv == SheetInit => SheetInv
BY SheetAssumption DEF SheetInit, SheetInv, SheetShape, Asked, SheetIsOfItsRun

\* A new read has no answer yet.
LEMMA NewLoad ==
  ASSUME NEW o \in Opening, NEW tr, NEW refresh, Load(o, tr, refresh)
  PROVE  \E n \in Loading : /\ loads' = loads \cup {n} /\ n.open = o
                            /\ \A j \in Jobs : n.answers[j] = Nothing
<1> DEFINE path == CASE "record" \in o.known -> "record"
                     [] "record" \notin o.known /\ "kind" \in o.known -> "db"
                     [] OTHER -> "none"
           jobs == {j \in Jobs : IF j = "trace" THEN "db" \in o.known /\ (refresh \/ tr = Nothing)
                                 ELSE path # "none"}
           n == [open |-> o, path |-> path, jobs |-> jobs, answers |-> [j \in Jobs |-> Nothing]]
<1>1. path \in {"record", "db", "none"}
  OBVIOUS
<1>2. jobs \in SUBSET Jobs
  OBVIOUS
<1>3. loads' = loads \cup {n}
  BY DEF Load
<1> HIDE DEF path, jobs
<1>4. n \in Loading
  BY <1>1, <1>2 DEF Loading
<1>5. n.open = o /\ \A j \in Jobs : n.answers[j] = Nothing
  OBVIOUS
<1> HIDE DEF n
<1> QED
  BY <1>3, <1>4, <1>5

LEMMA OpenRunStep ==
  ASSUME SheetInv, NEW r \in Run, OpenRun(r)
  PROVE  SheetInv'
<1>1. opened \in Nat /\ opened < MaxOpen /\ opened' = opened + 1 /\ trace' = Nothing /\ exec' = Nothing
  BY SheetAssumption DEF SheetInv, SheetShape, OpenRun
<1>2. PICK known \in SUBSET Known : open' = [id |-> opened', run |-> r, known |-> known]
  BY DEF OpenRun, Known
<1>3. open' \in Opening /\ open'.id = opened + 1
  BY <1>1, <1>2, SheetAssumption DEF Opening
<1>4. PICK n \in Loading : /\ loads' = loads \cup {n} /\ n.open = open'
                           /\ \A j \in Jobs : n.answers[j] = Nothing
  BY <1>3, NewLoad DEF OpenRun
<1>5. \A l \in loads : l.open.id \in Nat /\ l.open.id <= opened
  BY <1>1 DEF SheetInv, SheetShape, Asked, Loading, Opening
<1>6. SheetShape'
  BY <1>1, <1>3, <1>4, SheetAssumption DEF SheetInv, SheetShape
<1>7. Asked'
  <2>1. SUFFICES ASSUME NEW l \in loads'
                 PROVE  /\ l.open.id <= opened'
                        /\ open' # Nothing /\ l.open.id = open'.id => l.open.run = open'.run
                        /\ \A j \in Jobs : l.answers[j] # Nothing => l.answers[j].run = l.open.run
    BY <1>1, <1>3 DEF Asked
  <2>2. CASE l \in loads
    BY <1>1, <1>3, <1>5, <2>2 DEF SheetInv, Asked
  <2>3. CASE l = n
    BY <1>1, <1>3, <1>4, <2>3
  <2> QED
    BY <1>4, <2>2, <2>3
<1>8. SheetIsOfItsRun'
  BY <1>1 DEF SheetIsOfItsRun
<1> QED
  BY <1>6, <1>7, <1>8 DEF SheetInv

LEMMA OnExecutionStep ==
  ASSUME SheetInv, OnExecution
  PROVE  SheetInv'
<1>1. open \in Opening /\ UNCHANGED <<open, opened, trace, exec>>
  BY DEF OnExecution, SheetInv, SheetShape
<1>2. PICK n \in Loading : /\ loads' = loads \cup {n} /\ n.open = open
                           /\ \A j \in Jobs : n.answers[j] = Nothing
  BY <1>1, NewLoad DEF OnExecution
<1>3. SheetShape'
  BY <1>1, <1>2 DEF SheetInv, SheetShape
<1>4. Asked'
  BY <1>1, <1>2, NothingAssumption DEF SheetInv, Asked
<1>5. SheetIsOfItsRun'
  BY <1>1 DEF SheetInv, SheetIsOfItsRun
<1> QED
  BY <1>3, <1>4, <1>5 DEF SheetInv

LEMMA ReadJobStep ==
  ASSUME SheetInv, NEW j \in Jobs, ReadJob(j)
  PROVE  SheetInv'
<1> DEFINE answer(l) == IF j = "trace" THEN TraceOf(l.open.run) ELSE ExecOf(l.open.run, l.path)
<1>1. PICK l \in loads : loads' = (loads \ {l}) \cup {[l EXCEPT !.answers[j] = answer(l)]}
  BY DEF ReadJob
<1>2. l \in Loading /\ l.open.run \in Run
  BY DEF SheetInv, SheetShape, Loading, Opening
<1>3. answer(l) \in Trace \cup Exec /\ answer(l).run = l.open.run
  <2>1. TraceOf(l.open.run) \in Trace /\ TraceOf(l.open.run).run = l.open.run
    BY <1>2 DEF TraceOf, Trace
  <2>2. ExecOf(l.open.run, l.path) \in Exec /\ ExecOf(l.open.run, l.path).run = l.open.run
    BY <1>2 DEF ExecOf, Exec
  <2> QED
    BY <2>1, <2>2
<1> HIDE DEF answer
<1> DEFINE n == [l EXCEPT !.answers[j] = answer(l)]
<1>4. n \in Loading
  BY <1>2, <1>3 DEF Loading
<1>5. /\ n.open = l.open /\ n.answers[j] = answer(l)
      /\ \A k \in Jobs \ {j} : n.answers[k] = l.answers[k]
  BY <1>2 DEF Loading
<1> HIDE DEF n
<1>6. UNCHANGED <<open, opened, trace, exec>> /\ loads' = (loads \ {l}) \cup {n}
  BY <1>1 DEF ReadJob, n
<1>7. SheetShape'
  BY <1>4, <1>6 DEF SheetInv, SheetShape
<1>8. Asked'
  BY <1>3, <1>5, <1>6 DEF SheetInv, Asked
<1>9. SheetIsOfItsRun'
  BY <1>6 DEF SheetInv, SheetIsOfItsRun
<1> QED
  BY <1>7, <1>8, <1>9 DEF SheetInv

\* A read whose job is taken or lost stays as it is.
LEMMA JobDone ==
  ASSUME SheetInv, NEW l \in loads, NEW j \in Jobs,
         loads' = (loads \ {l}) \cup {[l EXCEPT !.jobs = @ \ {j}]}, UNCHANGED <<open, opened>>
  PROVE  SheetShape' /\ Asked'
<1> DEFINE n == [l EXCEPT !.jobs = @ \ {j}]
<1>1. l \in Loading
  BY DEF SheetInv, SheetShape
<1>2. n \in Loading
  BY <1>1 DEF Loading
<1>3. n.open = l.open /\ n.answers = l.answers
  BY <1>1 DEF Loading
<1>4. loads' = (loads \ {l}) \cup {n}
  OBVIOUS
<1> HIDE DEF n
<1>5. SheetShape'
  BY <1>2, <1>4 DEF SheetInv, SheetShape
<1>6. Asked'
  BY <1>3, <1>4 DEF SheetInv, Asked
<1> QED
  BY <1>5, <1>6

LEMMA TakeJobStep ==
  ASSUME SheetInv, NEW j \in Jobs, TakeJob(j)
  PROVE  SheetInv'
<1>1. PICK l \in loads :
        /\ l.answers[j] # Nothing
        /\ loads' = (loads \ {l}) \cup {[l EXCEPT !.jobs = @ \ {j}]}
        /\ trace' = trace \/ (StillOpen(l.open) /\ trace' = l.answers[j])
        /\ exec' = exec \/ (StillOpen(l.open) /\ exec' = l.answers[j])
  BY DEF TakeJob
<1>2. UNCHANGED <<open, opened>>
  BY DEF TakeJob
<1>3. SheetShape' /\ Asked'
  BY <1>1, <1>2, JobDone
<1>4. StillOpen(l.open) => open # Nothing /\ l.answers[j].run = open.run
  BY <1>1 DEF SheetInv, Asked, StillOpen
<1>5. SheetIsOfItsRun'
  BY <1>1, <1>2, <1>4 DEF SheetInv, SheetIsOfItsRun
<1> QED
  BY <1>3, <1>5 DEF SheetInv

LEMMA SettleStep ==
  ASSUME SheetInv, Settle
  PROVE  SheetInv'
<1>1. UNCHANGED <<opened, trace, exec>>
  BY DEF Settle
<1>2. CASE open' = open /\ \E l \in loads : loads' = loads \ {l}
  BY <1>1, <1>2 DEF SheetInv, SheetShape, Asked, SheetIsOfItsRun
<1>3. CASE \E l \in loads :
             /\ StillOpen(l.open)
             /\ open' = [open EXCEPT !.known = @ \cup Learns(open)]
             /\ LET path == IF "record" \in open'.known THEN "record" ELSE "db"
                    jobs == {"exec"} \cup (IF trace = Nothing THEN {"trace"} ELSE {})
                IN loads' = (loads \ {l}) \cup {[open |-> open', path |-> path, jobs |-> jobs,
                                                 answers |-> [j \in Jobs |-> Nothing]]}
  <2> DEFINE path == IF "record" \in open'.known THEN "record" ELSE "db"
             jobs == {"exec"} \cup (IF trace = Nothing THEN {"trace"} ELSE {})
             n == [open |-> open', path |-> path, jobs |-> jobs, answers |-> [j \in Jobs |-> Nothing]]
  <2>1. PICK l \in loads : /\ open # Nothing
                           /\ open' = [open EXCEPT !.known = @ \cup Learns(open)]
                           /\ loads' = (loads \ {l}) \cup {n}
    BY <1>3 DEF StillOpen
  <2>2. open \in Opening
    BY <2>1 DEF SheetInv, SheetShape
  <2>3. open' \in Opening /\ open'.id = open.id /\ open'.run = open.run
    <3>1. Learns(open) \in SUBSET Known
      BY DEF Learns, Known
    <3> QED
      BY <2>1, <2>2, <3>1 DEF Opening
  <2>4. path \in {"record", "db", "none"} /\ jobs \in SUBSET Jobs
    BY DEF Jobs
  <2> HIDE DEF path, jobs
  <2>5. n \in Loading
    BY <2>3, <2>4 DEF Loading
  <2>6. n.open = open' /\ \A j \in Jobs : n.answers[j] = Nothing
    OBVIOUS
  <2> HIDE DEF n
  <2>7. SheetShape'
    BY <1>1, <2>1, <2>3, <2>5 DEF SheetInv, SheetShape
  <2>8. Asked'
    BY <1>1, <2>1, <2>3, <2>6 DEF SheetInv, Asked
  <2>9. SheetIsOfItsRun'
    BY <1>1, <2>3, NothingAssumption DEF SheetInv, SheetIsOfItsRun
  <2> QED
    BY <2>7, <2>8, <2>9 DEF SheetInv
<1> QED
  BY <1>2, <1>3 DEF Settle

LEMMA SheetStep ==
  ASSUME SheetInv, [SheetNext]_sheetVars
  PROVE  SheetInv'
<1>1. ASSUME NEW r \in Run, OpenRun(r) PROVE SheetInv'
  BY <1>1, OpenRunStep
<1>2. ASSUME NEW r \in Run, RecordRow(r) \/ Finalize(r) PROVE SheetInv'
  BY <1>2 DEF RecordRow, Finalize, SheetInv, SheetShape, Asked, SheetIsOfItsRun
<1>3. ASSUME NEW j \in Jobs, ReadJob(j) PROVE SheetInv'
  BY <1>3, ReadJobStep
<1>4. ASSUME NEW j \in Jobs, TakeJob(j) PROVE SheetInv'
  BY <1>4, TakeJobStep
<1>5. CASE CloseRun
  BY <1>5 DEF CloseRun, SheetInv, SheetShape, Asked, SheetIsOfItsRun
<1>6. CASE FailJob
  <2>1. PICK l \in loads, j \in Jobs : loads' = (loads \ {l}) \cup {[l EXCEPT !.jobs = @ \ {j}]}
    <3>1. \A l \in loads : l.jobs \subseteq Jobs
      BY DEF SheetInv, SheetShape, Loading
    <3> QED
      BY <1>6, <3>1 DEF FailJob
  <2>2. UNCHANGED <<open, opened, trace, exec>>
    BY <1>6 DEF FailJob
  <2>3. SheetShape' /\ Asked'
    BY <2>1, <2>2, JobDone
  <2> QED
    BY <2>2, <2>3 DEF SheetInv, SheetIsOfItsRun
<1>7. CASE Settle
  BY <1>7, SettleStep
<1>8. CASE OnExecution
  BY <1>8, OnExecutionStep
<1>9. CASE UNCHANGED sheetVars
  BY <1>9 DEF sheetVars, SheetInv, SheetShape, Asked, SheetIsOfItsRun
<1> QED
  BY <1>1, <1>2, <1>3, <1>4, <1>5, <1>6, <1>7, <1>8, <1>9 DEF SheetNext

\* Both records the run sheet shows are those of the run it is open on, however its reads
\* overlap, fail and are overtaken by another opening (loadSheet in activity.js).
THEOREM OneRunPerSheet == SheetSpec => []SheetIsOfItsRun
<1>1. SheetInit => SheetInv
  BY SheetInitInv
<1>2. SheetInv /\ [SheetNext]_sheetVars => SheetInv'
  BY SheetStep
<1>3. SheetInv => SheetIsOfItsRun
  BY DEF SheetInv
<1> QED
  BY <1>1, <1>2, <1>3, PTL DEF SheetSpec

-----------------------------------------------------------------------------
(* The run queue. *)

QueueShape ==
  /\ firing \in BOOLEAN /\ (firing => post \in Posts)
  /\ queue \in Seq(Steps)
  /\ ran \in [Chain -> Seq(Kind)] /\ chainOf \in [Chain -> Seq(Kind)]
  /\ clicks \in Nat

\* What ran of a chain, step by step.
RanInOrder ==
  \A c \in Chain : /\ Len(ran[c]) <= Len(chainOf[c])
                   /\ \A i \in 1 .. Len(ran[c]) : ran[c][i] = chainOf[c][i]

\* k is the n-th step of the chain c.
IsStep(c, n, k) == n \in 1 .. Len(chainOf[c]) /\ chainOf[c][n] = k

\* The POST that the server has not handled is of the next step of its chain.
Asking == firing /\ post.answer = "none"
PostIsNext == Asking => IsStep(post.step[1], Len(ran[post.step[1]]) + 1, post.step[2])

\* The steps of the queue are of one chain and follow what ran of it and what is asked for;
\* a queue whose step was refused or lost is about to be dropped.
Lead(c) == IF Asking /\ post.step[1] = c THEN 1 ELSE 0
Doomed == firing /\ post.answer \in {"busy", "error"}
QueueFollows ==
  ~Doomed => \A i \in 1 .. Len(queue) :
    /\ queue[i][1] = queue[1][1]
    /\ IsStep(queue[i][1], Len(ran[queue[i][1]]) + Lead(queue[i][1]) + i, queue[i][2])

\* Nothing is known of a chain that was not asked for.
Clicked ==
  /\ \A i \in 1 .. Len(queue) : queue[i][1] <= clicks
  /\ firing => post.step[1] <= clicks
  /\ \A c \in Chain : c > clicks => ran[c] = <<>>

QueueInv == QueueShape /\ RanInOrder /\ PostIsNext /\ QueueFollows /\ Clicked

LEMMA PrefixOfChain ==
  ASSUME QueueShape, RanInOrder
  PROVE  ChainInOrder
<1> SUFFICES ASSUME NEW c \in Chain PROVE IsPrefix(ran[c], chainOf[c])
  BY DEF ChainInOrder
<1> DEFINE r == ran[c]  t == chainOf[c]  n == Len(r)
<1>1. r \in Seq(Kind) /\ t \in Seq(Kind) /\ n \in Nat /\ n <= Len(t) /\ \A i \in 1 .. n : r[i] = t[i]
  BY DEF QueueShape, RanInOrder
<1> HIDE DEF r, t
<1>2. SubSeq(r, 1, n) \in Seq(Kind) /\ Len(SubSeq(r, 1, n)) = n /\ \A i \in 1 .. n : SubSeq(r, 1, n)[i] = r[i]
  BY <1>1
<1>3. SubSeq(t, 1, n) \in Seq(Kind) /\ Len(SubSeq(t, 1, n)) = n /\ \A i \in 1 .. n : SubSeq(t, 1, n)[i] = t[i]
  BY <1>1
<1>4. SubSeq(r, 1, n) = SubSeq(t, 1, n)
  BY <1>1, <1>2, <1>3, SeqEqual
<1> QED
  BY <1>1, <1>4 DEF IsPrefix, r, t

LEMMA QueueInitInv == QueueInit => QueueInv
<1> SUFFICES ASSUME QueueInit PROVE QueueInv
  OBVIOUS
<1>1. QueueShape
  <2>1. <<>> \in Seq(Kind) /\ <<>> \in Seq(Steps)
    BY EmptySeq
  <2> QED
    BY <2>1 DEF QueueInit, QueueShape
<1>2. RanInOrder /\ PostIsNext /\ Clicked
  BY QueueAssumption DEF QueueInit, RanInOrder, PostIsNext, Asking, Clicked
<1>3. QueueFollows
  BY DEF QueueInit, QueueFollows
<1> QED
  BY <1>1, <1>2, <1>3 DEF QueueInv

\* Where a step leaves chains, runs, clicks, queue and POST alone, all of it stays.
LEMMA QueueFrame ==
  ASSUME QueueInv, UNCHANGED <<queue, firing, post, ran, chainOf, clicks>>
  PROVE  QueueInv'
BY DEF QueueInv, QueueShape, RanInOrder, PostIsNext, QueueFollows, Clicked, IsStep, Asking, Lead, Doomed

\* Pumping leaves the queue, or fires its first step while nothing is fired.
LEMMA Pumped ==
  ASSUME NEW q \in Seq(Steps), NEW act, NEW click, PumpQueue(q, act, click)
  PROVE  \/ queue' = q /\ UNCHANGED <<firing, post>>
         \/ /\ ~firing /\ Len(q) > 0 /\ queue' = Tail(q) /\ firing' = TRUE
            /\ post' = [step |-> q[1], click |-> click, answer |-> "none"]
BY DEF PumpQueue

LEMMA TailOf ==
  ASSUME NEW q \in Seq(Steps), Len(q) > 0
  PROVE  /\ q[1] \in Steps /\ Tail(q) \in Seq(Steps) /\ Len(Tail(q)) = Len(q) - 1
         /\ \A i \in 1 .. Len(Tail(q)) : i + 1 \in 1 .. Len(q) /\ Tail(q)[i] = q[i + 1]
BY DEF Steps

LEMMA TakePollStep ==
  ASSUME QueueInv, NEW busy \in BOOLEAN, TakePoll(busy)
  PROVE  QueueInv'
<1>1. UNCHANGED <<ran, chainOf, clicks>>
  BY DEF TakePoll, ServerUnchanged
<1>2. CASE queue' = queue /\ UNCHANGED <<firing, post>>
  BY <1>1, <1>2, QueueFrame
<1>3. CASE /\ ~firing /\ Len(queue) > 0 /\ queue' = Tail(queue) /\ firing' = TRUE
           /\ post' = [step |-> queue[1], click |-> FALSE, answer |-> "none"]
  <2>1. /\ queue[1] \in Steps /\ Tail(queue) \in Seq(Steps) /\ Len(Tail(queue)) = Len(queue) - 1
        /\ \A i \in 1 .. Len(Tail(queue)) : i + 1 \in 1 .. Len(queue) /\ Tail(queue)[i] = queue[i + 1]
    BY <1>3, TailOf DEF QueueInv, QueueShape
  <2>2. post' \in Posts
    BY <1>3, <2>1 DEF Posts, Answers
  <2>3. QueueShape'
    BY <1>1, <1>3, <2>1, <2>2 DEF QueueInv, QueueShape
  <2>4. PICK c \in Chain : c = queue[1][1] /\ Len(ran[c]) \in Nat /\ Len(queue) \in Nat
    BY <2>1 DEF QueueInv, QueueShape, Steps
  <2>0. Lead(c) = 0 /\ ~Doomed
    BY <1>3 DEF Lead, Asking, Doomed
  <2>5. \A i \in 1 .. Len(queue) : queue[i][1] = c /\ IsStep(c, Len(ran[c]) + i, queue[i][2])
    <3> SUFFICES ASSUME NEW i \in 1 .. Len(queue)
                 PROVE  queue[i][1] = c /\ IsStep(c, Len(ran[c]) + i, queue[i][2])
      OBVIOUS
    <3>1. queue[i][1] = c /\ IsStep(c, Len(ran[c]) + Lead(c) + i, queue[i][2])
      BY <2>0, <2>4, Zenon DEF QueueInv, QueueFollows
    <3>2. Len(ran[c]) + Lead(c) + i = Len(ran[c]) + i
      BY <2>0, <2>4
    <3> QED
      BY <3>1, <3>2, Zenon
  <2>6. Asking' /\ ~Doomed' /\ Lead(c)' = 1 /\ post'.step = queue[1]
    BY <1>3, <2>4 DEF Asking, Doomed, Lead
  <2>7. PostIsNext'
    BY <1>1, <1>3, <2>4, <2>5, <2>6 DEF PostIsNext, IsStep
  <2>8. QueueFollows'
    <3>1. \A i \in 1 .. Len(queue') : queue'[i][1] = c /\ IsStep(c, Len(ran[c]) + 1 + i, queue'[i][2])
      <4> SUFFICES ASSUME NEW i \in 1 .. Len(queue')
                   PROVE queue'[i][1] = c /\ IsStep(c, Len(ran[c]) + 1 + i, queue'[i][2])
        OBVIOUS
      <4>1. i + 1 \in 1 .. Len(queue) /\ queue'[i] = queue[i + 1] /\ i \in Nat
        BY <1>3, <2>1, <2>4
      <4>2. queue'[i][1] = c /\ IsStep(c, Len(ran[c]) + (i + 1), queue'[i][2])
        BY <2>5, <4>1
      <4>3. Len(ran[c]) + (i + 1) = Len(ran[c]) + 1 + i
        <5>1. \A m, n \in Nat : m + (n + 1) = m + 1 + n
          OBVIOUS
        <5> QED
          BY <2>4, <4>1, <5>1
      <4> QED
        BY <4>2, <4>3
    <3>2. SUFFICES ASSUME NEW i \in 1 .. Len(queue')
                   PROVE  /\ queue'[i][1] = queue'[1][1]
                          /\ IsStep(queue[i][1], Len(ran[queue[i][1]]) + Lead(queue[i][1]) + i, queue[i][2])'
      BY DEF QueueFollows
    <3>3. 1 \in 1 .. Len(queue') /\ queue'[i][1] = c /\ queue'[1][1] = c
      BY <1>3, <2>1, <2>4, <3>1
    <3>4. IsStep(queue[i][1], Len(ran[queue[i][1]]) + Lead(queue[i][1]) + i, queue[i][2])'
      BY <1>1, <2>6, <3>1, <3>3 DEF IsStep
    <3> QED
      BY <3>3, <3>4
  <2>9. RanInOrder' /\ Clicked'
    BY <1>1, <1>3, <2>1, <2>4, <2>6 DEF QueueInv, RanInOrder, Clicked
  <2> QED
    BY <2>3, <2>7, <2>8, <2>9 DEF QueueInv
<1>4. PumpQueue(queue, busy, FALSE) /\ queue \in Seq(Steps)
  BY DEF TakePoll, QueueInv, QueueShape
<1> QED
  BY <1>2, <1>3, <1>4, Pumped

LEMMA PostAnsweredStep ==
  ASSUME QueueInv, PostAnswered
  PROVE  QueueInv'
<1>1. UNCHANGED <<ran, chainOf, clicks>> /\ firing' = FALSE /\ firing /\ ~Asking
  BY DEF PostAnswered, ServerUnchanged, Asking
<1>2. (queue' = queue /\ ~Doomed) \/ queue' = <<>>
  BY DEF PostAnswered, AfterFailure, Doomed
<1>3. QueueShape'
  BY <1>1, <1>2, EmptySeq DEF QueueInv, QueueShape
<1>4. RanInOrder' /\ PostIsNext'
  BY <1>1 DEF QueueInv, RanInOrder, PostIsNext, Asking
<1>5. QueueFollows' /\ Clicked'
  <2>1. CASE queue' = queue /\ ~Doomed
    BY <1>1, <2>1 DEF QueueInv, QueueFollows, Clicked, Lead, Asking, IsStep
  <2>2. CASE queue' = <<>>
    BY <1>1, <2>2 DEF QueueInv, QueueFollows, Clicked
  <2> QED
    BY <1>2, <2>1, <2>2
<1> QED
  BY <1>3, <1>4, <1>5 DEF QueueInv

\* The answer to the POST is known, and nothing else changes.
LEMMA AnswerStep ==
  ASSUME QueueInv, firing, NEW a \in Answers \ {"none"}, post' = [post EXCEPT !.answer = a],
         UNCHANGED <<queue, firing, ran, chainOf, clicks>>, a = "started" => ~Asking /\ ~Doomed
  PROVE  QueueInv'
<1>1. post \in Posts
  BY DEF QueueInv, QueueShape
<1>2. post' \in Posts /\ post'.step = post.step /\ post'.answer = a
  BY <1>1 DEF Posts
<1>3. ~Asking' /\ (~Doomed' => ~Asking /\ ~Doomed)
  BY <1>2 DEF Asking, Doomed, Answers
<1>4. QueueShape' /\ RanInOrder' /\ PostIsNext' /\ Clicked'
  BY <1>2, <1>3 DEF QueueInv, QueueShape, RanInOrder, PostIsNext, Clicked
<1>5. QueueFollows'
  BY <1>3 DEF QueueInv, QueueFollows, Lead, IsStep
<1> QED
  BY <1>4, <1>5 DEF QueueInv

\* The server starts the step of the POST, whose page is still there or not.
LEMMA StartStep ==
  ASSUME QueueInv, Asking, UNCHANGED <<chainOf, clicks>>,
         ran' = [ran EXCEPT ![post.step[1]] = Append(@, post.step[2])]
  PROVE  /\ ran' \in [Chain -> Seq(Kind)]
         /\ post.step[1] \in Chain /\ Len(ran[post.step[1]]) \in Nat
         /\ Len(ran'[post.step[1]]) = Len(ran[post.step[1]]) + 1
         /\ \A c \in Chain : c # post.step[1] => ran'[c] = ran[c]
         /\ RanInOrder'
         /\ \A c \in Chain : c > clicks => ran'[c] = <<>>
<1>1. PICK c \in Chain, k \in Kind : c = post.step[1] /\ k = post.step[2]
  BY DEF QueueInv, QueueShape, Asking, Posts, Steps
<1>2. ran[c] \in Seq(Kind) /\ Len(ran[c]) \in Nat /\ ran' = [ran EXCEPT ![c] = Append(ran[c], k)]
  BY <1>1 DEF QueueInv, QueueShape
<1>3. /\ Append(ran[c], k) \in Seq(Kind) /\ Len(Append(ran[c], k)) = Len(ran[c]) + 1
      /\ \A i \in 1 .. Len(ran[c]) : Append(ran[c], k)[i] = ran[c][i]
      /\ Append(ran[c], k)[Len(ran[c]) + 1] = k
  BY <1>2
<1>4. ran' \in [Chain -> Seq(Kind)] /\ ran'[c] = Append(ran[c], k) /\ \A d \in Chain : d # c => ran'[d] = ran[d]
  BY <1>2, <1>3 DEF QueueInv, QueueShape
<1>5. Len(ran[c]) + 1 \in 1 .. Len(chainOf[c]) /\ chainOf[c][Len(ran[c]) + 1] = k
  BY <1>1 DEF QueueInv, PostIsNext, IsStep
<1>6. RanInOrder'
  <2>1. SUFFICES ASSUME NEW d \in Chain
                 PROVE  /\ Len(ran'[d]) <= Len(chainOf[d])
                        /\ \A i \in 1 .. Len(ran'[d]) : ran'[d][i] = chainOf[d][i]
    BY DEF RanInOrder
  <2>2. CASE d # c
    BY <1>4, <2>2 DEF QueueInv, RanInOrder
  <2>3. CASE d = c
    BY <1>2, <1>3, <1>4, <1>5, <2>3 DEF QueueInv, RanInOrder
  <2> QED
    BY <2>2, <2>3
<1>7. \A d \in Chain : d > clicks => ran'[d] = <<>>
  <2>1. c \in Nat /\ clicks \in Nat /\ c <= clicks
    BY <1>1, QueueAssumption DEF QueueInv, QueueShape, Clicked, Asking
  <2> QED
    BY <1>4, <2>1 DEF QueueInv, Clicked
<1> QED
  BY <1>1, <1>2, <1>3, <1>4, <1>6, <1>7

LEMMA HandlePostStep ==
  ASSUME QueueInv, HandlePost
  PROVE  QueueInv'
<1>1. UNCHANGED <<queue, firing, chainOf, clicks>> /\ Asking /\ firing
  BY DEF HandlePost, PageUnchanged, Asking
<1>2. CASE running = None
  <2>1. ran' = [ran EXCEPT ![post.step[1]] = Append(@, post.step[2])]
    BY <1>2 DEF HandlePost, StartRun
  <2>2. post' = [post EXCEPT !.answer = "started"]
    BY <1>2 DEF HandlePost
  <2>3. PICK c \in Chain : c = post.step[1]
    BY <1>1, <2>1, StartStep
  <2>4. /\ ran' \in [Chain -> Seq(Kind)] /\ Len(ran[c]) \in Nat
        /\ Len(ran'[c]) = Len(ran[c]) + 1
        /\ \A d \in Chain : d # c => ran'[d] = ran[d]
        /\ RanInOrder'
        /\ \A d \in Chain : d > clicks => ran'[d] = <<>>
    BY <1>1, <2>1, <2>3, StartStep
  <2>5. post' \in Posts /\ post'.step = post.step /\ post'.answer = "started"
    BY <1>1, <2>2 DEF QueueInv, QueueShape, Posts, Answers
  <2>6. ~Asking' /\ ~Doomed /\ \A d \in Chain : Lead(d)' = 0 /\ Lead(d) = IF d = c THEN 1 ELSE 0
    BY <1>1, <2>3, <2>5 DEF Asking, Doomed, Lead
  <2>7. QueueShape' /\ PostIsNext' /\ Clicked'
    BY <1>1, <2>4, <2>5, <2>6 DEF QueueInv, QueueShape, PostIsNext, Clicked
  <2>8. QueueFollows'
    <3>1. SUFFICES ASSUME NEW i \in 1 .. Len(queue)
                   PROVE  /\ queue[i][1] = queue[1][1]
                          /\ IsStep(queue[i][1], Len(ran[queue[i][1]]) + Lead(queue[i][1]) + i, queue[i][2])'
      BY <1>1 DEF QueueFollows
    <3>2. PICK d \in Chain : d = queue[i][1]
      BY DEF QueueInv, QueueShape, Steps
    <3>3. d = queue[1][1] /\ IsStep(d, Len(ran[d]) + Lead(d) + i, queue[i][2])
      BY <2>6, <3>2 DEF QueueInv, QueueFollows
    <3>4. Len(ran[d]) + Lead(d) = Len(ran'[d]) + Lead(d)'
      BY <2>4, <2>6
    <3> QED
      BY <1>1, <3>2, <3>3, <3>4 DEF IsStep
  <2> QED
    BY <2>4, <2>7, <2>8 DEF QueueInv
<1>3. CASE running # None
  <2>1. UNCHANGED ran /\ post' = [post EXCEPT !.answer = "busy"]
    BY <1>3 DEF HandlePost
  <2> QED
    BY <1>1, <2>1, AnswerStep DEF Answers
<1> QED
  BY <1>2, <1>3

LEMMA ReloadStep ==
  ASSUME QueueInv, Reload
  PROVE  QueueInv'
<1>1. queue' = <<>> /\ firing' = FALSE /\ UNCHANGED <<chainOf, clicks>>
  BY DEF Reload
<1>2. /\ ran' \in [Chain -> Seq(Kind)] /\ RanInOrder'
      /\ \A c \in Chain : c > clicks => ran'[c] = <<>>
  <2>1. CASE UNCHANGED ran
    BY <1>1, <2>1 DEF QueueInv, QueueShape, RanInOrder, Clicked
  <2>2. CASE Asking /\ ran' = [ran EXCEPT ![post.step[1]] = Append(@, post.step[2])]
    BY <1>1, <2>2, StartStep
  <2> QED
    BY <2>1, <2>2 DEF Reload, Asking
<1>3. QueueShape'
  BY <1>1, <1>2, EmptySeq DEF QueueInv, QueueShape
<1>4. PostIsNext' /\ QueueFollows' /\ Clicked'
  BY <1>1, <1>2 DEF PostIsNext, Asking, QueueFollows, Clicked
<1> QED
  BY <1>2, <1>3, <1>4 DEF QueueInv

LEMMA ClickStep ==
  ASSUME QueueInv, NEW c \in Chain, NEW chain \in Seq(Kind), Click(c, chain)
  PROVE  QueueInv'
<1> DEFINE q == [i \in 1 .. Len(chain) |-> <<c, chain[i]>>]
<1>1. /\ clicks \in Nat /\ c = clicks + 1 /\ clicks' = c /\ ran' = ran
      /\ Len(chain) \in Nat \ {0} /\ \A i \in 1 .. Len(chain) : chain[i] \in Kind
      /\ chainOf' = [chainOf EXCEPT ![c] = chain]
  BY EmptySeq DEF Click, QueueInv, QueueShape
<1>2. chainOf' \in [Chain -> Seq(Kind)] /\ chainOf'[c] = chain /\ \A d \in Chain : d # c => chainOf'[d] = chainOf[d]
  BY <1>1 DEF QueueInv, QueueShape
<1>3. ran[c] = <<>> /\ Len(ran[c]) = 0
  BY <1>1 DEF QueueInv, Clicked
<1>4. RanInOrder'
  BY <1>1, <1>2, <1>3 DEF QueueInv, RanInOrder
<1>5. \A d \in Chain : d > clicks' => ran'[d] = <<>>
  BY <1>1, QueueAssumption DEF QueueInv, Clicked
<1>6. q \in Seq(Steps) /\ Len(q) = Len(chain) /\ \A i \in 1 .. Len(chain) : q[i] = <<c, chain[i]>>
  BY <1>1 DEF Steps
<1>7. PumpQueue(q, active, TRUE)
  BY DEF Click
<1> HIDE DEF q
<1>8. CASE queue' = q /\ UNCHANGED <<firing, post>>
  <2>1. firing => post \in Posts /\ post.step[1] \in Chain /\ post.step[1] \in Nat /\ post.step[1] <= clicks
    BY QueueAssumption DEF QueueInv, QueueShape, Clicked, Posts, Steps
  <2>2. QueueShape'
    BY <1>1, <1>2, <1>6, <1>8 DEF QueueInv, QueueShape
  <2>3. PostIsNext'
    BY <1>1, <1>2, <1>8, <2>1 DEF QueueInv, PostIsNext, IsStep, Asking
  <2>4. Lead(c)' = 0
    BY <1>1, <1>8, <2>1 DEF Lead, Asking
  <2>5. QueueFollows'
    BY <1>1, <1>2, <1>3, <1>6, <1>8, <2>4 DEF QueueFollows, IsStep
  <2>6. Clicked'
    BY <1>1, <1>5, <1>6, <1>8, <2>1 DEF Clicked
  <2> QED
    BY <1>4, <2>2, <2>3, <2>5, <2>6 DEF QueueInv
<1>9. CASE /\ ~firing /\ Len(q) > 0 /\ queue' = Tail(q) /\ firing' = TRUE
           /\ post' = [step |-> q[1], click |-> TRUE, answer |-> "none"]
  <2>1. /\ q[1] \in Steps /\ Tail(q) \in Seq(Steps) /\ Len(Tail(q)) = Len(q) - 1
        /\ \A i \in 1 .. Len(Tail(q)) : i + 1 \in 1 .. Len(q) /\ Tail(q)[i] = q[i + 1]
    BY <1>6, <1>9, TailOf
  <2>2. post' \in Posts /\ post'.step = <<c, chain[1]>> /\ post'.answer = "none"
    BY <1>1, <1>6, <1>9, <2>1 DEF Posts, Answers
  <2>3. QueueShape'
    BY <1>1, <1>2, <1>9, <2>1, <2>2 DEF QueueInv, QueueShape
  <2>4. PostIsNext'
    BY <1>1, <1>2, <1>3, <2>2 DEF PostIsNext, IsStep
  <2>5. Lead(c)' = 1
    BY <1>9, <2>2 DEF Lead, Asking
  <2>6. QueueFollows'
    BY <1>1, <1>2, <1>3, <1>6, <1>9, <2>1, <2>5 DEF QueueFollows, IsStep
  <2>7. Clicked'
    <3>1. \A i \in 1 .. Len(queue') : queue'[i][1] = c
      BY <1>6, <1>9, <2>1
    <3>2. post'.step[1] = c /\ c \in Nat /\ clicks' = c
      BY <1>1, <2>2
    <3> QED
      BY <1>5, <3>1, <3>2 DEF Clicked
  <2> QED
    BY <1>4, <2>3, <2>4, <2>6, <2>7 DEF QueueInv
<1> QED
  BY <1>6, <1>7, <1>8, <1>9, Pumped

LEMMA ChainOfKinds == \A sel \in Selection : BuildChain(sel) \in Seq(Kind)
<1> SUFFICES ASSUME NEW sel \in Selection PROVE BuildChain(sel) \in Seq(Kind)
  OBVIOUS
<1>1. \A condition, kind : kind \in Kind => If(condition, kind) \in Seq(Kind)
  BY EmptySeq DEF If
<1>2. \A s, t \in Seq(Kind) : s \o t \in Seq(Kind)
  BY ConcatProperties
<1> DEFINE message == {"sync", "process", "message"}
           sync == If("sync" \in sel.steps, "resync")
           process == If("process" \in sel.steps, IF "message" \in sel.steps THEN "process" ELSE "review")
           notify == If("message" \in sel.steps /\ "process" \notin sel.steps, "notify")
           calendar == If("calendar" \in sel.steps, "calendar-scan")
           first == IF sel.dry THEN If(sel.steps \cap message # {}, "rehearsal")
                    ELSE IF message \subseteq sel.steps THEN <<"scan">> ELSE sync \o process \o notify
<1>3. sync \in Seq(Kind) /\ process \in Seq(Kind) /\ notify \in Seq(Kind) /\ calendar \in Seq(Kind)
  BY <1>1 DEF Kind
<1>4. If(sel.steps \cap message # {}, "rehearsal") \in Seq(Kind) /\ <<"scan">> \in Seq(Kind)
  BY <1>1 DEF Kind
<1>5. BuildChain(sel) = first \o calendar
  BY DEF BuildChain
<1> HIDE DEF sync, process, notify, calendar
<1>6. sync \o process \o notify \in Seq(Kind)
  BY <1>2, <1>3
<1>7. first \in Seq(Kind)
  BY <1>4, <1>6
<1> QED
  BY <1>2, <1>3, <1>5, <1>7

LEMMA QueueStep ==
  ASSUME QueueInv, [QueueNext]_queueVars
  PROVE  QueueInv'
<1> USE DEF PageUnchanged, ServerUnchanged
<1>1. ASSUME NEW c \in Chain, RunSelection(c) \/ RebuildCache(c) \/ RunTraffic(c) PROVE QueueInv'
  <2>1. <<"reprocess">> \in Seq(Kind) /\ <<"traffic-check">> \in Seq(Kind)
    BY DEF Kind
  <2> QED
    BY <1>1, <2>1, ChainOfKinds, ClickStep DEF RunSelection, RebuildCache, RunTraffic
<1>2. CASE PostAnswered
  BY <1>2, PostAnsweredStep
<1>3. CASE SendPoll \/ SwitchTab
  BY <1>3, QueueFrame DEF SendPoll, SwitchTab
<1>4. CASE PollIdle \/ PollBusy
  BY <1>4, TakePollStep DEF PollIdle, PollBusy
<1>5. CASE Reload
  BY <1>5, ReloadStep
<1>6. CASE HandlePost
  BY <1>6, HandlePostStep
<1>7. CASE LosePost
  BY <1>7, AnswerStep DEF LosePost, Answers
<1>8. CASE HandlePoll \/ LosePoll \/ OtherRun \/ EndRun
  BY <1>8, QueueFrame DEF HandlePoll, LosePoll, OtherRun, EndRun
<1>9. CASE UNCHANGED queueVars
  BY <1>9, QueueFrame DEF queueVars
<1> QED
  BY <1>1, <1>2, <1>3, <1>4, <1>5, <1>6, <1>7, <1>8, <1>9 DEF QueueNext

\* What the server ran of a chain is a prefix of the chain: its steps run in order, none twice
\* and none after one that was refused or lost, though requests, answers and polls go astray,
\* other pages start runs and the page is reloaded (pumpQueue in execution.js).
THEOREM ChainsRunInOrder == QueueSpec => []ChainInOrder
<1>1. QueueInit => QueueInv
  BY QueueInitInv
<1>2. QueueInv /\ [QueueNext]_queueVars => QueueInv'
  BY QueueStep
<1>3. QueueInv => ChainInOrder
  BY PrefixOfChain DEF QueueInv
<1> QED
  BY <1>1, <1>2, <1>3, PTL DEF QueueSpec

-----------------------------------------------------------------------------
(* The run list. *)

LEMMA LeastNumber ==
  ASSUME NEW S \in SUBSET Nat, S # {}
  PROVE  \E m \in S : \A n \in S : m <= n
<1>1. PICK m \in S : \A n \in S : <<n, m>> \notin OpToRel(<, Nat)
  BY NatLessThanWellFounded, WFMin
<1>2. \A n \in S : ~(n < m)
  BY <1>1 DEF OpToRel
<1> QED
  BY <1>2

\* s lists the numbers of S from the greatest to the least.
Lists(s, S) ==
  /\ s \in Seq(Nat)
  /\ \A i \in 1 .. Len(s), j \in 1 .. Len(s) : i < j => s[i] > s[j]
  /\ \A x : x \in S <=> \E i \in 1 .. Len(s) : s[i] = x

\* The newest-first list of a finite set of runs exists and is what the server sends.
LEMMA DescendingLists ==
  ASSUME NEW S \in SUBSET Nat, IsFiniteSet(S)
  PROVE  Lists(Descending(S), S)
<1> DEFINE n == Cardinality(S)
           rank(r) == Cardinality({x \in S : x > r})
           d == Descending(S)
<1>1. n \in Nat
  BY FS_CardinalityType
<1>2. \A r \in S : rank(r) \in 0 .. n - 1
  <2> SUFFICES ASSUME NEW r \in S PROVE rank(r) \in 0 .. n - 1
    OBVIOUS
  <2>1. {x \in S : x > r} \in SUBSET (S \ {r})
    BY SMT
  <2>2. IsFiniteSet(S \ {r}) /\ Cardinality(S \ {r}) = n - 1
    BY FS_RemoveElement
  <2>3. IsFiniteSet({x \in S : x > r}) /\ rank(r) <= n - 1
    BY <2>1, <2>2, FS_Subset
  <2>4. rank(r) \in Nat
    BY <2>3, FS_CardinalityType
  <2> HIDE DEF rank, n
  <2> QED
    BY <2>3, <2>4, <1>1
<1>3. \A r \in S, q \in S : r < q => rank(q) < rank(r)
  <2> SUFFICES ASSUME NEW r \in S, NEW q \in S, r < q PROVE rank(q) < rank(r)
    OBVIOUS
  <2>1. {x \in S : x > q} \in SUBSET {x \in S : x > r}
    <3>1. \A x \in S : x > q => x > r
      OBVIOUS
    <3> QED
      BY <3>1, Zenon
  <2>2. q \in {x \in S : x > r} /\ q \notin {x \in S : x > q}
    <3>1. r \in Nat /\ q \in Nat
      OBVIOUS
    <3>2. q > r /\ ~(q > q)
      BY <3>1
    <3> QED
      BY <3>2, Zenon
  <2>3. IsFiniteSet({x \in S : x > r})
    BY FS_Subset
  <2>4. rank(q) <= rank(r) /\ rank(q) # rank(r)
    BY <2>1, <2>2, <2>3, FS_Subset
  <2>5. rank(q) \in 0 .. n - 1 /\ rank(r) \in 0 .. n - 1
    BY <1>2
  <2> HIDE DEF rank, n
  <2> QED
    BY <2>4, <2>5, <1>1
<1>4. d = [i \in 1 .. n |-> CHOOSE r \in S : rank(r) = i - 1]
  BY DEF Descending
<1> HIDE DEF rank, n, d
<1>5. \A i \in 1 .. n : \E r \in S : rank(r) = i - 1
  <2> DEFINE f == [r \in S |-> rank(r) + 1]
  <2>1. \A r \in S : rank(r) + 1 \in 1 .. n
    BY <1>1, <1>2
  <2>2. \A r \in S, q \in S : rank(r) + 1 = rank(q) + 1 => r = q
    BY <1>1, <1>2, <1>3
  <2>3. f \in Injection(S, 1 .. n)
    BY <2>1, <2>2 DEF Injection, IsInjective
  <2>4. IsFiniteSet(1 .. n) /\ Cardinality(1 .. n) = n
    BY <1>1, FS_Interval
  <2>5. f \in Surjection(S, 1 .. n)
    BY <2>3, <2>4, FS_Injection DEF n
  <2>6. \A i \in 1 .. n : \E r \in S : f[r] = i
    BY <2>5 DEF Surjection
  <2> SUFFICES ASSUME NEW i \in 1 .. n PROVE \E r \in S : rank(r) = i - 1
    OBVIOUS
  <2>7. PICK r \in S : rank(r) + 1 = i
    BY <2>6
  <2>8. rank(r) = i - 1
    BY <2>7, <1>1, <1>2
  <2> QED
    BY <2>8
<1>6. \A i \in 1 .. n : d[i] \in S /\ rank(d[i]) = i - 1
  <2> SUFFICES ASSUME NEW i \in 1 .. n PROVE d[i] \in S /\ rank(d[i]) = i - 1
    OBVIOUS
  <2>1. d[i] = CHOOSE r \in S : rank(r) = i - 1
    BY <1>4
  <2>2. \E r \in S : rank(r) = i - 1
    BY <1>5
  <2> QED
    BY <2>1, <2>2
<1>7. d \in Seq(Nat) /\ Len(d) = n
  <2>1. d \in [1 .. n -> Nat]
    BY <1>4, <1>6
  <2> QED
    BY <1>1, <2>1
<1>8. \A i \in 1 .. n, j \in 1 .. n : i < j => d[i] > d[j]
  <2> SUFFICES ASSUME NEW i \in 1 .. n, NEW j \in 1 .. n, i < j PROVE d[i] > d[j]
    OBVIOUS
  <2>1. /\ d[i] \in S /\ d[j] \in S /\ d[i] \in Nat /\ d[j] \in Nat
        /\ rank(d[i]) = i - 1 /\ rank(d[j]) = j - 1
    BY <1>6
  <2>2. rank(d[i]) < rank(d[j]) /\ ~(rank(d[j]) < rank(d[i]))
    BY <2>1, <1>1
  <2>3. ~(d[i] < d[j])
    BY <2>1, <2>2, <1>3
  <2>4. d[i] # d[j]
    BY <2>1, <2>2
  <2> QED
    BY <2>1, <2>3, <2>4
<1>9. \A x : x \in S <=> \E i \in 1 .. n : d[i] = x
  <2>1. ASSUME NEW x \in S PROVE \E i \in 1 .. n : d[i] = x
    <3>1. rank(x) + 1 \in 1 .. n
      BY <1>1, <1>2
    <3>2. d[rank(x) + 1] \in S /\ rank(d[rank(x) + 1]) = rank(x)
      BY <3>1, <1>1, <1>2, <1>6
    <3> DEFINE y == d[rank(x) + 1]
    <3>3. y \in S /\ rank(y) = rank(x) /\ rank(x) \in Nat
      BY <3>1, <3>2, <1>1, <1>2
    <3> HIDE DEF y
    <3>4. ~(x < y) /\ ~(y < x)
      BY <3>3, <1>3
    <3>5. y = x
      BY <3>3, <3>4
    <3> QED
      BY <3>1, <3>5 DEF y
  <2> QED
    BY <2>1, <1>6
<1> QED
  BY <1>7, <1>8, <1>9 DEF Lists, d

\* There is one newest-first list of a set.
LEMMA ListsOnce ==
  ASSUME NEW S, NEW s, NEW t, Lists(s, S), Lists(t, S)
  PROVE  s = t
<1>1. s \in Seq(Nat) /\ t \in Seq(Nat) /\ Len(s) \in Nat /\ Len(t) \in Nat
  BY DEF Lists
<1>2. \A i \in 1 .. Len(s) : s[i] \in Nat
  BY <1>1
<1>3. \A i \in 1 .. Len(t) : t[i] \in Nat
  BY <1>1
<1>4. \A i \in 1 .. Len(s) : \E j \in 1 .. Len(t) : t[j] = s[i]
  BY DEF Lists
<1>5. \A j \in 1 .. Len(t) : \E i \in 1 .. Len(s) : t[j] = s[i]
  BY DEF Lists
<1>6. \A i \in 1 .. Len(s), j \in 1 .. Len(s) : i < j => s[i] > s[j]
  BY DEF Lists
<1>7. \A i \in 1 .. Len(t), j \in 1 .. Len(t) : i < j => t[i] > t[j]
  BY DEF Lists
<1>8. \A i \in Nat : i \in 1 .. Len(s) /\ i \in 1 .. Len(t) => s[i] = t[i]
  <2> DEFINE Bad == {i \in Nat : i \in 1 .. Len(s) /\ i \in 1 .. Len(t) /\ s[i] # t[i]}
  <2> SUFFICES ASSUME Bad # {} PROVE FALSE
    OBVIOUS
  <2>1. PICK i \in Bad : \A j \in Bad : i <= j
    BY LeastNumber
  <2>2. i \in 1 .. Len(s) /\ i \in 1 .. Len(t) /\ s[i] # t[i]
    OBVIOUS
  <2>3. \A j \in 1 .. i - 1 : j \in 1 .. Len(s) /\ j \in 1 .. Len(t) /\ j \notin Bad
    BY <1>1, <2>1, <2>2
  <2>4. \A j \in 1 .. i - 1 : s[j] = t[j]
    BY <2>3
  <2> HIDE DEF Bad
  <2>5. CASE s[i] > t[i]
    <3>1. PICK j \in 1 .. Len(t) : t[j] = s[i]
      BY <1>4, <2>2
    <3>2. ~(i < j) /\ i # j
      BY <3>1, <2>2, <2>5, <1>2, <1>3, <1>7
    <3>3. j \in 1 .. i - 1 /\ j < i /\ j \in 1 .. Len(s)
      BY <3>1, <3>2, <2>2, <1>1
    <3>4. s[j] > s[i] /\ s[j] = t[j]
      BY <3>3, <2>2, <2>4, <1>6
    <3> QED
      BY <3>1, <3>4, <2>2, <1>2
  <2>6. CASE t[i] > s[i]
    <3>1. PICK j \in 1 .. Len(s) : t[i] = s[j]
      BY <1>5, <2>2
    <3>2. ~(i < j) /\ i # j
      BY <3>1, <2>2, <2>6, <1>2, <1>3, <1>6
    <3>3. j \in 1 .. i - 1 /\ j < i /\ j \in 1 .. Len(t)
      BY <3>1, <3>2, <2>2, <1>1
    <3>4. t[j] > t[i] /\ s[j] = t[j]
      BY <3>3, <2>2, <2>4, <1>7
    <3> QED
      BY <3>1, <3>4, <2>2, <1>3
  <2> QED
    BY <2>2, <2>5, <2>6, <1>2, <1>3
<1>9. ~(Len(s) < Len(t))
  <2> SUFFICES ASSUME Len(s) < Len(t) PROVE FALSE
    OBVIOUS
  <2>1. Len(s) + 1 \in 1 .. Len(t)
    BY <1>1
  <2>2. PICK i \in 1 .. Len(s) : t[Len(s) + 1] = s[i]
    BY <2>1, <1>5
  <2>3. i \in 1 .. Len(t) /\ i < Len(s) + 1 /\ s[i] = t[i]
    BY <1>1, <1>8
  <2> QED
    BY <2>1, <2>2, <2>3, <1>3, <1>7
<1>10. ~(Len(t) < Len(s))
  <2> SUFFICES ASSUME Len(t) < Len(s) PROVE FALSE
    OBVIOUS
  <2>1. Len(t) + 1 \in 1 .. Len(s)
    BY <1>1
  <2>2. PICK i \in 1 .. Len(t) : t[i] = s[Len(t) + 1]
    BY <2>1, <1>4
  <2>3. i \in 1 .. Len(s) /\ i < Len(t) + 1 /\ s[i] = t[i]
    BY <1>1, <1>8
  <2> QED
    BY <2>1, <2>2, <2>3, <1>2, <1>6
<1>11. Len(s) = Len(t)
  BY <1>1, <1>9, <1>10
<1>12. \A i \in 1 .. Len(s) : s[i] = t[i]
  BY <1>1, <1>8, <1>11
<1> QED
  BY <1>1, <1>11, <1>12, SeqEqual

\* The first k of a list are the numbers down to its k-th.
LEMMA ListsPrefix ==
  ASSUME NEW S, NEW s, Lists(s, S), NEW k \in 1 .. Len(s)
  PROVE  Lists(SubSeq(s, 1, k), {x \in S : x >= s[k]})
<1> DEFINE p == SubSeq(s, 1, k)
<1>1. s \in Seq(Nat) /\ Len(s) \in Nat /\ \A i \in 1 .. Len(s) : s[i] \in Nat
  BY DEF Lists
<1>2. \A i \in 1 .. Len(s), j \in 1 .. Len(s) : i < j => s[i] > s[j]
  BY DEF Lists
<1>3. \A x : x \in S <=> \E i \in 1 .. Len(s) : s[i] = x
  BY DEF Lists
<1>4. p \in Seq(Nat) /\ Len(p) = k /\ \A i \in 1 .. k : p[i] = s[i]
  BY <1>1
<1> HIDE DEF p
<1>5. \A i \in 1 .. Len(p), j \in 1 .. Len(p) : i < j => p[i] > p[j]
  <2>1. \A i \in 1 .. k : i \in 1 .. Len(s)
    BY <1>1
  <2> QED
    BY <2>1, <1>2, <1>4
<1>6. ASSUME NEW x PROVE x \in {y \in S : y >= s[k]} <=> \E i \in 1 .. Len(p) : p[i] = x
  <2>1. ASSUME NEW i \in 1 .. k PROVE s[i] \in S /\ s[i] >= s[k]
    <3>1. i \in 1 .. Len(s)
      BY <1>1
    <3>2. i < k \/ i = k
      BY <1>1
    <3> QED
      BY <3>1, <3>2, <1>1, <1>2, <1>3
  <2>2. ASSUME x \in S, x >= s[k] PROVE \E i \in 1 .. k : s[i] = x
    <3>1. PICK i \in 1 .. Len(s) : s[i] = x
      BY <2>2, <1>3
    <3>2. ~(k < i)
      BY <3>1, <2>2, <1>1, <1>2
    <3> QED
      BY <3>1, <3>2, <1>1
  <2> QED
    BY <2>1, <2>2, <1>4
<1> QED
  BY <1>4, <1>5, <1>6 DEF Lists, p

\* A list continued with a list of lower numbers lists both.
LEMMA ListsJoin ==
  ASSUME NEW S, NEW T, NEW s, NEW t, Lists(s, S), Lists(t, T),
         \A x \in S, y \in T : x > y
  PROVE  Lists(s \o t, S \cup T)
<1> DEFINE u == s \o t
<1>1. s \in Seq(Nat) /\ t \in Seq(Nat) /\ Len(s) \in Nat /\ Len(t) \in Nat
  BY DEF Lists
<1>2. /\ \A i \in 1 .. Len(s), j \in 1 .. Len(s) : i < j => s[i] > s[j]
      /\ \A i \in 1 .. Len(t), j \in 1 .. Len(t) : i < j => t[i] > t[j]
  BY DEF Lists
<1>3. /\ \A x : x \in S <=> \E i \in 1 .. Len(s) : s[i] = x
      /\ \A x : x \in T <=> \E i \in 1 .. Len(t) : t[i] = x
  BY DEF Lists
<1>4. u \in Seq(Nat) /\ Len(u) = Len(s) + Len(t)
  BY <1>1, ConcatProperties
<1>5. /\ \A i \in 1 .. Len(s) : u[i] = s[i] /\ s[i] \in S
      /\ \A i \in 1 .. Len(t) : u[Len(s) + i] = t[i] /\ t[i] \in T
  <2>1. \A i \in 1 .. Len(s) : u[i] = s[i]
    BY <1>1, ConcatProperties
  <2>2. ASSUME NEW i \in 1 .. Len(t) PROVE u[Len(s) + i] = t[i]
    <3>1. /\ Len(s) + i \in 1 .. Len(s) + Len(t) /\ ~(Len(s) + i <= Len(s))
          /\ Len(s) + i - Len(s) = i
      BY <1>1
    <3> QED
      BY <3>1, <1>1, ConcatProperties
  <2> QED
    BY <2>1, <2>2, <1>3
<1> HIDE DEF u
<1>6. \A i \in 1 .. Len(u) : \/ i \in 1 .. Len(s)
                             \/ i > Len(s) /\ i - Len(s) \in 1 .. Len(t) /\ i = Len(s) + (i - Len(s))
  BY <1>1, <1>4
<1>7. ASSUME NEW i \in 1 .. Len(u), NEW j \in 1 .. Len(u), i < j PROVE u[i] > u[j]
  <2>1. CASE j \in 1 .. Len(s)
    <3>1. i \in 1 .. Len(s)
      BY <2>1, <1>1, <1>4, <1>7
    <3> QED
      BY <2>1, <3>1, <1>2, <1>5, <1>7
  <2>2. CASE j > Len(s) /\ i \in 1 .. Len(s)
    <3>1. j - Len(s) \in 1 .. Len(t) /\ j = Len(s) + (j - Len(s))
      BY <2>2, <1>1, <1>4
    <3>2. u[j] \in T /\ u[i] \in S
      BY <2>2, <3>1, <1>5
    <3> QED
      BY <3>2
  <2>3. CASE j > Len(s) /\ i > Len(s)
    <3>1. /\ j - Len(s) \in 1 .. Len(t) /\ j = Len(s) + (j - Len(s))
          /\ i - Len(s) \in 1 .. Len(t) /\ i = Len(s) + (i - Len(s)) /\ i - Len(s) < j - Len(s)
      BY <2>3, <1>1, <1>4, <1>7
    <3>2. u[i] = t[i - Len(s)] /\ u[j] = t[j - Len(s)]
      BY <3>1, <1>5
    <3> QED
      BY <3>1, <3>2, <1>2
  <2> QED
    BY <2>1, <2>2, <2>3, <1>6
<1>8. ASSUME NEW x PROVE x \in S \cup T <=> \E i \in 1 .. Len(u) : u[i] = x
  <2>1. ASSUME x \in S PROVE \E i \in 1 .. Len(u) : u[i] = x
    <3>1. PICK i \in 1 .. Len(s) : s[i] = x
      BY <2>1, <1>3
    <3>2. i \in 1 .. Len(u) /\ u[i] = x
      BY <3>1, <1>1, <1>4, <1>5
    <3> QED
      BY <3>2
  <2>2. ASSUME x \in T PROVE \E i \in 1 .. Len(u) : u[i] = x
    <3>1. PICK i \in 1 .. Len(t) : t[i] = x
      BY <2>2, <1>3
    <3>2. Len(s) + i \in 1 .. Len(u) /\ u[Len(s) + i] = x
      BY <3>1, <1>1, <1>4, <1>5
    <3> QED
      BY <3>2
  <2>3. ASSUME NEW i \in 1 .. Len(u), u[i] = x PROVE x \in S \cup T
    <3>1. CASE i \in 1 .. Len(s)
      BY <3>1, <2>3, <1>5
    <3>2. CASE i - Len(s) \in 1 .. Len(t) /\ i = Len(s) + (i - Len(s))
      BY <3>2, <2>3, <1>5
    <3> QED
      BY <3>1, <3>2, <1>6
  <2> QED
    BY <2>1, <2>2, <2>3
<1> QED
  BY <1>4, <1>7, <1>8 DEF Lists, u

\* The ends of a list are its greatest and its least number.
LEMMA ListsEnds ==
  ASSUME NEW S, NEW s, Lists(s, S), s # <<>>
  PROVE  /\ Head(s) \in S /\ Last(s) \in S
         /\ \A x \in S : x \in Nat /\ x <= Head(s) /\ x >= Last(s)
<1>1. s \in Seq(Nat) /\ Len(s) \in Nat /\ Len(s) # 0 /\ \A i \in 1 .. Len(s) : s[i] \in Nat
  BY DEF Lists
<1>2. Head(s) = s[1] /\ Last(s) = s[Len(s)] /\ 1 \in 1 .. Len(s) /\ Len(s) \in 1 .. Len(s)
  BY <1>1 DEF Last
<1>3. Head(s) \in S /\ Last(s) \in S
  BY <1>2 DEF Lists
<1>4. ASSUME NEW x \in S PROVE x \in Nat /\ x <= Head(s) /\ x >= Last(s)
  <2>1. PICK i \in 1 .. Len(s) : s[i] = x
    BY DEF Lists
  <2>2. (1 < i => s[1] > s[i]) /\ (i < Len(s) => s[i] > s[Len(s)])
    BY <1>2 DEF Lists
  <2>3. 1 < i \/ i = 1
    BY <1>1
  <2>4. i < Len(s) \/ i = Len(s)
    BY <1>1
  <2> QED
    BY <2>1, <2>2, <2>3, <2>4, <1>1, <1>2
<1> QED
  BY <1>3, <1>4

LEMMA FiniteScope ==
  ASSUME NEW sc, NEW b, stored \in Nat
  PROVE  /\ OfScope(sc, b) \in SUBSET Nat /\ IsFiniteSet(OfScope(sc, b))
         /\ OfScope(sc, b) \in SUBSET (1 .. stored)
<1>1. OfScope(sc, b) \in SUBSET (1 .. stored)
  BY DEF OfScope
<1>2. IsFiniteSet(1 .. stored)
  BY FS_Interval
<1>3. IsFiniteSet(OfScope(sc, b))
  BY <1>1, <1>2, FS_Subset
<1> QED
  BY <1>1, <1>3

\* The runs of a scope between the first and the last that are shown.
Shown(sc, before, s) == {r \in OfScope(sc, before) : r <= Head(s) /\ r >= Last(s)}

\* What an answer says of the runs of its scope before its cursor: the newest of them without a
\* gap, and whether there are older ones.
Newest(f) ==
  LET page == f.answer.page IN
  /\ page # <<>> => /\ Lists(page, Shown(f.scope, f.before, page))
                    /\ f.before # 0 => \A r \in OfScope(f.scope, f.before) : r <= Head(page)
                    /\ ~f.answer.more => OfScope(f.scope, Last(page)) = {}
  /\ page = <<>> => ~f.answer.more /\ (f.before # 0 => OfScope(f.scope, f.before) = {})

Fetching == [request : Nat, scope : Scopes, append : BOOLEAN, before : Nat,
             answer : [page : Seq(Nat), more : BOOLEAN, state : {"pending", "ok", "error"}]]

LEMMA AnswerIsNewest ==
  ASSUME FeedAssumption, stored \in Nat, NEW f \in Fetching,
         NEW g, g = [f EXCEPT !.answer = AnswerOf(f)]
  PROVE  g \in Fetching /\ Newest(g)
<1> DEFINE S == OfScope(f.scope, f.before)
           all == Descending(S)
           k == IF Len(all) < Page THEN Len(all) ELSE Page
           page == SubSeq(all, 1, k)
<1>1. AnswerOf(f) = [page |-> page, more |-> Len(all) > Page, state |-> "ok"]
  BY DEF AnswerOf
<1>2. S \in SUBSET Nat /\ IsFiniteSet(S) /\ S \in SUBSET (1 .. stored)
  BY FiniteScope
<1>3. Lists(all, S)
  BY <1>2, DescendingLists
<1>4. Page \in Nat /\ Page # 0
  BY DEF FeedAssumption
<1> HIDE DEF all
<1>5. all \in Seq(Nat) /\ Len(all) \in Nat
  BY <1>3 DEF Lists
<1>6. k \in 0 .. Len(all) /\ (Len(all) # 0 => k \in 1 .. Len(all)) /\ (~(Len(all) > Page) => k = Len(all))
  BY <1>4, <1>5
<1> HIDE DEF k
<1>7. page \in Seq(Nat) /\ Len(page) = k /\ \A i \in 1 .. k : page[i] = all[i]
  BY <1>5, <1>6
<1> HIDE DEF page
<1>8. g \in Fetching
  <2>1. AnswerOf(f) \in [page : Seq(Nat), more : BOOLEAN, state : {"pending", "ok", "error"}]
    BY <1>1, <1>7
  <2> QED
    BY <2>1 DEF Fetching
<1>9. /\ g.scope = f.scope /\ g.before = f.before /\ g.answer.page = page
      /\ g.answer.more = (Len(all) > Page)
  BY <1>1 DEF Fetching
<1>10. CASE Len(all) = 0
  <2>1. page = <<>>
    BY <1>10, <1>6, <1>7
  <2>2. S = {}
    BY <1>3, <1>10 DEF Lists
  <2>3. ~(Len(all) > Page)
    BY <1>10, <1>4
  <2> QED
    BY <2>1, <2>2, <2>3, <1>8, <1>9 DEF Newest
<1>11. CASE Len(all) # 0
  <2>1. all # <<>> /\ k \in 1 .. Len(all) /\ page # <<>>
    BY <1>11, <1>5, <1>6, <1>7
  <2>2. Lists(page, {x \in S : x >= all[k]})
    BY <2>1, <1>3, ListsPrefix DEF page
  <2>3. /\ Head(all) \in S /\ Last(all) \in S
        /\ \A x \in S : x \in Nat /\ x <= Head(all) /\ x >= Last(all)
    BY <2>1, <1>3, ListsEnds
  <2>4. Head(page) = Head(all) /\ Last(page) = all[k] /\ (~(Len(all) > Page) => Last(page) = Last(all))
    <3>1. Head(page) = page[1] /\ Head(all) = all[1]
      BY <1>5, <1>7
    <3>2. 1 \in 1 .. k /\ k \in 1 .. k
      BY <2>1, <1>5
    <3>3. page[1] = all[1] /\ page[k] = all[k]
      BY <3>2, <1>7
    <3>4. Last(page) = page[k] /\ Last(all) = all[Len(all)]
      BY <1>7 DEF Last
    <3> QED
      BY <3>1, <3>3, <3>4, <1>6
  <2>5. Shown(f.scope, f.before, page) = {x \in S : x >= all[k]}
    BY <2>3, <2>4 DEF Shown
  <2>6. f.before # 0 => \A r \in OfScope(f.scope, f.before) : r <= Head(page)
    BY <2>3, <2>4
  <2>7. ASSUME ~(Len(all) > Page) PROVE OfScope(f.scope, Last(page)) = {}
    <3> SUFFICES ASSUME NEW r \in OfScope(f.scope, Last(page)) PROVE FALSE
      OBVIOUS
    <3>1. Last(page) \in S /\ \A x \in S : x >= Last(page)
      BY <2>3, <2>4, <2>7
    <3>2. Last(page) \in Nat /\ Last(page) # 0 /\ r \in Nat /\ f.before \in Nat
      BY <3>1, <1>2 DEF OfScope, Fetching
    <3>3. r < Last(page) /\ r \in 1 .. stored /\ ScopeOf[r] = f.scope
      BY <3>2 DEF OfScope
    <3>4. f.before # 0 => Last(page) < f.before
      BY <3>1 DEF OfScope
    <3>5. r \in S
      BY <3>2, <3>3, <3>4 DEF OfScope
    <3> QED
      BY <3>1, <3>2, <3>3, <3>5
  <2> HIDE DEF S
  <2> QED
    BY <2>1, <2>2, <2>5, <2>6, <2>7, <1>8, <1>9 DEF Newest, S
<1> QED
  BY <1>10, <1>11, <1>5

FeedShape ==
  /\ stored \in Nat /\ request \in Nat /\ scope \in Scopes
  /\ runs \in Seq(Nat) /\ flight \in SUBSET Fetching

\* What a fetch under way asked for, and what its answer says; the newest fetch continues what is
\* shown.
Fetches ==
  /\ \A f \in flight : /\ f.request <= request /\ f.before <= stored
                       /\ f.answer.state = "ok" => Newest(f)
                       /\ f.request = request =>
                            /\ f.scope = scope
                            /\ f.append => runs # <<>> /\ f.before = Last(runs)
                            /\ ~f.append => f.before = 0
  /\ \A f \in flight, g \in flight : f.request = g.request => f = g

Listed ==
  /\ runs # <<>> => /\ Lists(runs, Shown(scope, 0, runs))
                    /\ ~hasMore => OfScope(scope, Last(runs)) = {}
  /\ runs = <<>> => ~hasMore

FeedInv == FeedShape /\ Fetches /\ Listed

LEMMA FeedInitInv == FeedInit => FeedInv
BY DEF FeedInit, FeedInv, FeedShape, Fetches, Listed, Scopes

LEMMA ListedIsWhole ==
  ASSUME FeedInv
  PROVE  FeedIsWhole
<1> SUFFICES ASSUME runs # <<>>
             PROVE  /\ runs = Descending(Shown(scope, 0, runs))
                    /\ ~hasMore => OfScope(scope, Last(runs)) = {}
  BY DEF FeedIsWhole, Shown
<1>1. Shown(scope, 0, runs) \in SUBSET OfScope(scope, 0)
  BY DEF Shown
<1>2. Shown(scope, 0, runs) \in SUBSET Nat /\ IsFiniteSet(Shown(scope, 0, runs))
  BY <1>1, FiniteScope, FS_Subset DEF FeedInv, FeedShape
<1>3. Lists(runs, Shown(scope, 0, runs))
  BY DEF FeedInv, Listed
<1> QED
  BY <1>2, <1>3, DescendingLists, ListsOnce DEF FeedInv, Listed

\* Every run shown is stored.
LEMMA EndsStored ==
  ASSUME stored \in Nat, NEW sc, NEW b, NEW s, s # <<>>, Lists(s, Shown(sc, b, s))
  PROVE  Head(s) \in 1 .. stored /\ Last(s) \in 1 .. stored
<1>1. Head(s) \in Shown(sc, b, s) /\ Last(s) \in Shown(sc, b, s)
  BY ListsEnds
<1> QED
  BY <1>1 DEF Shown, OfScope

\* fetchRuns starts the newest fetch.
LEMMA NewFetch ==
  ASSUME FeedInv, NEW append \in BOOLEAN, NEW sc \in Scopes, NEW listed \in Seq(Nat),
         append => listed # <<>>, listed # <<>> => Last(listed) \in 1 .. stored,
         FetchRuns(append, sc, listed), stored' = stored, scope' = sc,
         append => runs' = listed
  PROVE  Fetches' /\ request' \in Nat /\ flight' \in SUBSET Fetching
<1> DEFINE b == IF append /\ listed # <<>> THEN Last(listed) ELSE 0
           n == [request |-> request', scope |-> sc, append |-> append, before |-> b,
                 answer |-> Pending]
<1>1. stored \in Nat /\ request \in Nat /\ request' = request + 1 /\ flight' = flight \cup {n}
  BY DEF FetchRuns, FeedInv, FeedShape
<1>2. b \in Nat /\ b <= stored /\ (append => b = Last(listed)) /\ (~append => b = 0)
  BY <1>1
<1>3. Pending \in [page : Seq(Nat), more : BOOLEAN, state : {"pending", "ok", "error"}]
      /\ Pending.state = "pending"
  BY DEF Pending
<1> HIDE DEF b
<1>4. n \in Fetching
  BY <1>1, <1>2, <1>3 DEF Fetching
<1>5. /\ n.request = request' /\ n.scope = sc /\ n.append = append /\ n.before = b
      /\ n.answer.state = "pending"
  BY <1>3
<1> HIDE DEF n
<1>6. flight \in SUBSET Fetching
  BY DEF FeedInv, FeedShape
<1>7. \A f \in flight : f.request \in Nat /\ f.request <= request
  BY <1>6 DEF Fetching, FeedInv, Fetches
<1>8. \A f \in flight : f.request < request' /\ f.request <= request' /\ f.request # request'
  BY <1>1, <1>7
<1>9. \A f \in flight : f.before <= stored' /\ (f.answer.state = "ok" => Newest(f)')
  BY DEF FeedInv, Fetches, Newest, Shown, OfScope
<1>10. request' <= request' /\ request' \in Nat
  BY <1>1
<1>11. \A f \in flight' : /\ f.request <= request' /\ f.before <= stored'
                          /\ f.answer.state = "ok" => Newest(f)'
                          /\ f.request = request' =>
                               /\ f.scope = scope'
                               /\ f.append => runs' # <<>> /\ f.before = Last(runs')
                               /\ ~f.append => f.before = 0
  <2> SUFFICES ASSUME NEW f \in flight'
               PROVE  /\ f.request <= request' /\ f.before <= stored'
                      /\ f.answer.state = "ok" => Newest(f)'
                      /\ f.request = request' =>
                           /\ f.scope = scope'
                           /\ f.append => runs' # <<>> /\ f.before = Last(runs')
                           /\ ~f.append => f.before = 0
    OBVIOUS
  <2>1. CASE f \in flight
    BY <2>1, <1>8, <1>9
  <2>2. CASE f = n
    BY <2>2, <1>2, <1>5, <1>10
  <2> QED
    BY <2>1, <2>2, <1>1
<1>12. \A f \in flight', g \in flight' : f.request = g.request => f = g
  BY <1>1, <1>5, <1>8 DEF FeedInv, Fetches
<1>13. flight' \in SUBSET Fetching
  BY <1>1, <1>4, <1>6
<1> QED
  BY <1>10, <1>11, <1>12, <1>13 DEF Fetches

LEMMA FetchStep ==
  ASSUME FeedInv, FetchActivity \/ FetchMore
  PROVE  FeedInv'
<1>1. /\ UNCHANGED <<stored, scope, runs, hasMore>>
      /\ FetchRuns(FALSE, scope, runs) \/ (hasMore /\ FetchRuns(TRUE, scope, runs))
  BY DEF FetchActivity, FetchMore
<1>2. stored \in Nat /\ scope \in Scopes /\ runs \in Seq(Nat)
  BY DEF FeedInv, FeedShape
<1>3. runs # <<>> => Last(runs) \in 1 .. stored
  BY <1>2, EndsStored DEF FeedInv, Listed
<1>4. hasMore => runs # <<>>
  BY DEF FeedInv, Listed
<1>5. Fetches' /\ request' \in Nat /\ flight' \in SUBSET Fetching
  <2>1. CASE FetchRuns(FALSE, scope, runs)
    BY <2>1, <1>1, <1>2, <1>3, NewFetch
  <2>2. CASE hasMore /\ FetchRuns(TRUE, scope, runs)
    BY <2>2, <1>1, <1>2, <1>3, <1>4, NewFetch
  <2> QED
    BY <2>1, <2>2, <1>1
<1>6. Listed'
  BY <1>1 DEF FeedInv, Listed, Shown, OfScope
<1>7. FeedShape'
  BY <1>1, <1>2, <1>5 DEF FeedShape
<1> QED
  BY <1>5, <1>6, <1>7 DEF FeedInv

LEMMA SetScopeStep ==
  ASSUME FeedInv, NEW sc \in Scopes, SetScope(sc)
  PROVE  FeedInv'
<1>1. /\ scope' = sc /\ runs' = <<>> /\ hasMore' = FALSE /\ stored' = stored
      /\ FetchRuns(FALSE, sc, <<>>)
  BY DEF SetScope
<1>2. Fetches' /\ request' \in Nat /\ flight' \in SUBSET Fetching
  <2>1. <<>> \in Seq(Nat) /\ FALSE \in BOOLEAN /\ (<<>> # <<>> => Last(<<>>) \in 1 .. stored)
    OBVIOUS
  <2> QED
    BY <2>1, <1>1, NewFetch
<1>3. Listed'
  BY <1>1 DEF Listed
<1>4. FeedShape'
  BY <1>1, <1>2 DEF FeedInv, FeedShape
<1> QED
  BY <1>2, <1>3, <1>4 DEF FeedInv

\* The next run of the database is newer than every run shown or answered.
LEMMA AddRunStep ==
  ASSUME FeedInv, AddRun
  PROVE  FeedInv'
<1>1. /\ stored \in Nat /\ stored' = stored + 1
      /\ UNCHANGED <<scope, runs, hasMore, request, flight>>
  BY DEF AddRun, FeedInv, FeedShape
<1>2. ASSUME NEW sc, NEW b \in Nat, b # 0, b <= stored
      PROVE  OfScope(sc, b)' = OfScope(sc, b)
  BY <1>1, <1>2 DEF OfScope
<1>3. ASSUME NEW sc, NEW b \in Nat, b <= stored, NEW s, s # <<>>, Lists(s, Shown(sc, b, s))
      PROVE  Shown(sc, b, s)' = Shown(sc, b, s)
  <2>1. Head(s) \in 1 .. stored
    BY <1>1, <1>3, EndsStored
  <2>2. \A r \in 1 .. stored' : r <= Head(s) => r \in 1 .. stored
    BY <2>1, <1>1
  <2>3. \A r \in 1 .. stored : r \in 1 .. stored'
    BY <1>1
  <2> QED
    BY <2>2, <2>3 DEF Shown, OfScope
<1>4. ASSUME NEW f \in Fetching, f.before <= stored, Newest(f)
      PROVE  Newest(f)'
  <2> DEFINE page == f.answer.page
  <2>1. f.before \in Nat
    BY DEF Fetching
  <2>2. f.before # 0 => OfScope(f.scope, f.before)' = OfScope(f.scope, f.before)
    BY <2>1, <1>2, <1>4
  <2>3. CASE page = <<>>
    BY <2>2, <2>3, <1>4 DEF Newest
  <2>4. CASE page # <<>>
    <3>1. Lists(page, Shown(f.scope, f.before, page))
      BY <2>4, <1>4 DEF Newest
    <3>2. Shown(f.scope, f.before, page)' = Shown(f.scope, f.before, page)
      BY <2>1, <2>4, <3>1, <1>3, <1>4
    <3>3. Last(page) \in 1 .. stored
      BY <2>4, <3>1, <1>1, EndsStored
    <3>4. OfScope(f.scope, Last(page))' = OfScope(f.scope, Last(page))
      BY <3>3, <1>1, <1>2
    <3> QED
      BY <2>2, <2>4, <3>2, <3>4, <1>4 DEF Newest
  <2> QED
    BY <2>3, <2>4
<1>5. flight \in SUBSET Fetching
  BY DEF FeedInv, FeedShape
<1>6. \A f \in flight : f.before <= stored' /\ (f.answer.state = "ok" => Newest(f)')
  <2> SUFFICES ASSUME NEW f \in flight
               PROVE  f.before <= stored' /\ (f.answer.state = "ok" => Newest(f)')
    OBVIOUS
  <2>1. f \in Fetching /\ f.before <= stored /\ f.before \in Nat
    BY <1>5 DEF Fetching, FeedInv, Fetches
  <2>2. f.answer.state = "ok" => Newest(f)
    BY DEF FeedInv, Fetches
  <2> QED
    BY <2>1, <2>2, <1>1, <1>4
<1>7. Fetches'
  BY <1>1, <1>6 DEF FeedInv, Fetches
<1>8. Listed'
  <2>1. CASE runs # <<>>
    <3>1. Lists(runs, Shown(scope, 0, runs))
      BY <2>1 DEF FeedInv, Listed
    <3>2. Shown(scope, 0, runs)' = Shown(scope, 0, runs)
      BY <2>1, <3>1, <1>1, <1>3
    <3>3. Last(runs) \in 1 .. stored
      BY <2>1, <3>1, <1>1, EndsStored
    <3>4. OfScope(scope, Last(runs))' = OfScope(scope, Last(runs))
      BY <3>3, <1>1, <1>2
    <3> QED
      BY <2>1, <3>2, <3>4, <1>1 DEF FeedInv, Listed
  <2>2. CASE runs = <<>>
    BY <2>2, <1>1 DEF FeedInv, Listed
  <2> QED
    BY <2>1, <2>2
<1>9. FeedShape'
  BY <1>1 DEF FeedInv, FeedShape
<1> QED
  BY <1>7, <1>8, <1>9 DEF FeedInv

\* The server answers one fetch, or the fetch fails.
LEMMA ReadRunsStep ==
  ASSUME FeedAssumption, FeedInv, ReadRuns
  PROVE  FeedInv'
<1>0. PICK f \in flight : \E a \in {AnswerOf(f), [Pending EXCEPT !.state = "error"]} :
        flight' = (flight \ {f}) \cup {[f EXCEPT !.answer = a]}
  BY DEF ReadRuns
<1>1. PICK a \in {AnswerOf(f), [Pending EXCEPT !.state = "error"]} :
        flight' = (flight \ {f}) \cup {[f EXCEPT !.answer = a]}
  BY <1>0
<1> DEFINE g == [f EXCEPT !.answer = a]
<1>2. UNCHANGED <<stored, scope, runs, hasMore, request>>
  BY DEF ReadRuns
<1>3. stored \in Nat /\ flight \in SUBSET Fetching /\ f \in Fetching
  BY DEF FeedInv, FeedShape
<1>4. g \in Fetching /\ (g.answer.state = "ok" => Newest(g))
  <2>1. CASE a = AnswerOf(f)
    BY <2>1, <1>3, AnswerIsNewest
  <2>2. CASE a = [Pending EXCEPT !.state = "error"]
    <3>1. a = [page |-> <<>>, more |-> FALSE, state |-> "error"]
      BY <2>2, Zenon DEF Pending
    <3>2. a \in [page : Seq(Nat), more : BOOLEAN, state : {"pending", "ok", "error"}]
          /\ a.state = "error"
      BY <3>1
    <3> QED
      BY <3>2, <1>3 DEF Fetching
  <2> QED
    BY <2>1, <2>2
<1>5. g.request = f.request /\ g.scope = f.scope /\ g.append = f.append /\ g.before = f.before
  BY <1>3 DEF Fetching
<1>6. flight' = (flight \ {f}) \cup {g}
  BY <1>1
<1> HIDE DEF g
<1>7. \A h \in flight' : h.answer.state = "ok" => Newest(h)'
  <2> SUFFICES ASSUME NEW h \in flight', h.answer.state = "ok" PROVE Newest(h)'
    OBVIOUS
  <2>1. Newest(h)
    BY <1>4, <1>6 DEF FeedInv, Fetches
  <2> QED
    BY <2>1, <1>2 DEF Newest, Shown, OfScope
<1>8. \A h \in flight' : /\ h.request <= request' /\ h.before <= stored'
                         /\ h.request = request' =>
                              /\ h.scope = scope'
                              /\ h.append => runs' # <<>> /\ h.before = Last(runs')
                              /\ ~h.append => h.before = 0
  BY <1>2, <1>5, <1>6 DEF FeedInv, Fetches
<1>9. \A h \in flight', k \in flight' : h.request = k.request => h = k
  BY <1>5, <1>6 DEF FeedInv, Fetches
<1>10. Fetches'
  BY <1>7, <1>8, <1>9 DEF Fetches
<1>11. Listed'
  BY <1>2 DEF FeedInv, Listed, Shown, OfScope
<1>12. FeedShape'
  BY <1>2, <1>3, <1>4, <1>6 DEF FeedInv, FeedShape
<1> QED
  BY <1>10, <1>11, <1>12 DEF FeedInv

\* The newest answer continues the list or replaces it, any other leaves it.
LEMMA TakeRunsStep ==
  ASSUME FeedInv, TakeRuns
  PROVE  FeedInv'
<1>1. PICK f \in flight :
        /\ flight' = flight \ {f}
        /\ IF Current(f) /\ f.answer.state = "ok"
           THEN /\ runs' = IF f.append THEN runs \o f.answer.page ELSE f.answer.page
                /\ hasMore' = f.answer.more
           ELSE UNCHANGED <<runs, hasMore>>
  BY DEF TakeRuns
<1>2. UNCHANGED <<stored, scope, request>>
  BY DEF TakeRuns
<1>3. stored \in Nat /\ flight \in SUBSET Fetching /\ f \in Fetching /\ runs \in Seq(Nat)
  BY DEF FeedInv, FeedShape
<1>4. \A h \in flight' : h \in flight /\ h # f
  BY <1>1
<1>5. \A h \in flight' : h.answer.state = "ok" => Newest(h)'
  <2> SUFFICES ASSUME NEW h \in flight', h.answer.state = "ok" PROVE Newest(h)'
    OBVIOUS
  <2>1. Newest(h)
    BY <1>4 DEF FeedInv, Fetches
  <2> QED
    BY <2>1, <1>2 DEF Newest, Shown, OfScope
<1>6. CASE ~(Current(f) /\ f.answer.state = "ok")
  <2>1. UNCHANGED <<runs, hasMore>>
    BY <1>1, <1>6
  <2>2. Fetches'
    BY <2>1, <1>2, <1>4, <1>5 DEF FeedInv, Fetches
  <2>3. Listed'
    BY <2>1, <1>2 DEF FeedInv, Listed, Shown, OfScope
  <2>4. FeedShape'
    BY <2>1, <1>1, <1>2 DEF FeedInv, FeedShape
  <2> QED
    BY <2>2, <2>3, <2>4 DEF FeedInv
<1>7. CASE Current(f) /\ f.answer.state = "ok"
  <2> DEFINE page == f.answer.page
  <2>1. runs' = (IF f.append THEN runs \o page ELSE page) /\ hasMore' = f.answer.more
    BY <1>1, <1>7
  <2>2. /\ f.request = request /\ f.scope = scope
        /\ f.append => runs # <<>> /\ f.before = Last(runs)
        /\ ~f.append => f.before = 0
    BY <1>7 DEF Current, FeedInv, Fetches
  <2>3. /\ page # <<>> => /\ Lists(page, Shown(scope, f.before, page))
                          /\ ~f.answer.more => OfScope(scope, Last(page)) = {}
        /\ page = <<>> => ~f.answer.more /\ (f.before # 0 => OfScope(scope, f.before) = {})
    BY <2>2, <1>7 DEF Newest, FeedInv, Fetches
  <2>4. page \in Seq(Nat) /\ f.answer.more \in BOOLEAN /\ f.append \in BOOLEAN
    BY <1>3 DEF Fetching
  <2> HIDE DEF page
  <2>5. \A h \in flight' : h.request # request
    BY <2>2, <1>4 DEF FeedInv, Fetches
  <2>6. Fetches'
    <3>1. \A h \in flight' : h.request <= request' /\ h.before <= stored' /\ h.request # request'
      BY <2>5, <1>2, <1>4 DEF FeedInv, Fetches
    <3>2. \A h \in flight', k \in flight' : h.request = k.request => h = k
      BY <1>4 DEF FeedInv, Fetches
    <3> QED
      BY <3>1, <3>2, <1>5 DEF Fetches
  <2>7. FeedShape'
    BY <2>1, <2>4, <1>1, <1>2, <1>3 DEF FeedInv, FeedShape
  <2>8. \A s \in Seq(Nat) : Shown(scope, 0, s)' = Shown(scope, 0, s)
    BY <1>2 DEF Shown, OfScope
  <2>9. \A b : OfScope(scope, b)' = OfScope(scope, b)
    BY <1>2 DEF OfScope
  <2>10. CASE ~f.append
    <3>1. runs' = page
      BY <2>1, <2>10
    <3> QED
      BY <3>1, <2>1, <2>2, <2>3, <2>4, <2>6, <2>7, <2>10, <1>2 DEF FeedInv, Listed, Shown, OfScope
  <2>11. CASE f.append /\ page = <<>>
    <3>1. runs # <<>> /\ f.before = Last(runs)
      BY <2>2, <2>11
    <3>2. Lists(runs, Shown(scope, 0, runs))
      BY <3>1 DEF FeedInv, Listed
    <3>3. Last(runs) \in 1 .. stored
      BY <3>1, <3>2, <1>3, EndsStored
    <3>4. f.before # 0
      BY <3>1, <3>3
    <3>5. OfScope(scope, Last(runs)) = {}
      BY <3>1, <3>4, <2>3, <2>11
    <3>6. runs' = runs
      BY <2>1, <2>11, <1>3
    <3>7. Listed'
      BY <3>1, <3>2, <3>5, <3>6, <1>2 DEF Listed, Shown, OfScope
    <3> QED
      BY <3>7, <2>6, <2>7 DEF FeedInv
  <2>12. CASE f.append /\ page # <<>>
    <3> DEFINE old == Shown(scope, 0, runs)
               new == Shown(scope, f.before, page)
               joined == runs \o page
    <3>1. runs # <<>> /\ f.before = Last(runs)
      BY <2>2, <2>12
    <3>2. Lists(runs, old)
      BY <3>1 DEF FeedInv, Listed
    <3>3. /\ Last(runs) \in 1 .. stored /\ Head(runs) \in 1 .. stored
          /\ Last(runs) \in old /\ Head(runs) \in old
          /\ \A x \in old : x \in Nat /\ x >= Last(runs) /\ x <= Head(runs)
      BY <3>1, <3>2, <1>3, EndsStored, ListsEnds
    <3>4. Lists(page, new) /\ (~f.answer.more => OfScope(scope, Last(page)) = {})
      BY <2>3, <2>12
    <3>5. /\ Last(page) \in 1 .. stored /\ Head(page) \in 1 .. stored
          /\ Last(page) \in new /\ Head(page) \in new
          /\ \A x \in new : x \in Nat /\ x >= Last(page) /\ x <= Head(page)
      BY <3>4, <2>12, <1>3, EndsStored, ListsEnds
    <3>6. \A y \in new : y < Last(runs)
      BY <3>1, <3>3 DEF Shown, OfScope
    <3>7. \A x \in old, y \in new : x > y
      BY <3>3, <3>5, <3>6
    <3>8. Lists(joined, old \cup new)
      BY <3>2, <3>4, <3>7, ListsJoin
    <3>9. Head(joined) = Head(runs) /\ Last(joined) = Last(page) /\ joined # <<>>
      <4>1. /\ joined \in Seq(Nat) /\ Len(joined) = Len(runs) + Len(page)
            /\ \A i \in 1 .. Len(runs) + Len(page) :
                 joined[i] = IF i <= Len(runs) THEN runs[i] ELSE page[i - Len(runs)]
        BY <2>4, <1>3, ConcatProperties
      <4>2. Len(runs) \in Nat /\ Len(runs) # 0 /\ Len(page) \in Nat /\ Len(page) # 0
        BY <3>1, <2>4, <2>12, <1>3
      <4> HIDE DEF joined
      <4>3. joined[1] = runs[1] /\ joined[Len(joined)] = page[Len(page)] /\ Len(joined) # 0
        <5>1. 1 \in 1 .. Len(runs) + Len(page) /\ 1 <= Len(runs)
          BY <4>2
        <5>2. /\ Len(runs) + Len(page) \in 1 .. Len(runs) + Len(page)
              /\ ~(Len(runs) + Len(page) <= Len(runs))
              /\ Len(runs) + Len(page) - Len(runs) = Len(page)
          BY <4>2
        <5> QED
          BY <5>1, <5>2, <4>1
      <4>4. joined # <<>>
        BY <4>1, <4>3
      <4>5. Head(joined) = joined[1] /\ Head(runs) = runs[1]
        BY <4>1, <4>4, <3>1, <1>3
      <4> QED
        BY <4>3, <4>4, <4>5 DEF Last
    <3>10. Shown(scope, 0, joined) = old \cup new
      <4>1. \A x \in OfScope(scope, 0) : x \in Nat
        BY DEF OfScope
      <4>2. ASSUME NEW x, x \in old \cup new PROVE x \in Shown(scope, 0, joined)
        <5>1. CASE x \in old
          <6>1. x \in OfScope(scope, 0) /\ x <= Head(runs) /\ x >= Last(runs) /\ x \in Nat
            BY <5>1, <3>3 DEF Shown
          <6>2. x >= Last(page)
            BY <6>1, <3>3, <3>5, <3>6
          <6> QED
            BY <6>1, <6>2, <3>9 DEF Shown
        <5>2. CASE x \in new
          <6>1. x \in OfScope(scope, 0) /\ x \in Nat /\ x >= Last(page)
            BY <5>2, <3>5 DEF Shown, OfScope
          <6>2. x <= Head(runs)
            BY <6>1, <5>2, <3>3, <3>6
          <6> QED
            BY <6>1, <6>2, <3>9 DEF Shown
        <5> QED
          BY <5>1, <5>2, <4>2
      <4>3. ASSUME NEW x, x \in Shown(scope, 0, joined) PROVE x \in old \cup new
        <5>1. x \in OfScope(scope, 0) /\ x <= Head(runs) /\ x >= Last(page) /\ x \in Nat
          BY <4>1, <4>3, <3>9 DEF Shown
        <5>2. CASE x >= Last(runs)
          BY <5>1, <5>2 DEF Shown
        <5>3. CASE ~(x >= Last(runs))
          <6>1. x < Last(runs) /\ Last(runs) # 0
            BY <5>1, <5>3, <3>3
          <6>2. x \in OfScope(scope, f.before)
            BY <6>1, <5>1, <3>1 DEF OfScope
          <6>3. Newest(f) /\ f.before # 0 /\ f.answer.page # <<>>
            BY <3>1, <3>3, <2>12, <1>7 DEF FeedInv, Fetches, page
          <6>4. x <= Head(page)
            BY <6>2, <6>3, <2>2 DEF Newest, page
          <6> QED
            BY <6>2, <6>4, <5>1 DEF Shown
        <5> QED
          BY <5>2, <5>3
      <4> QED
        BY <4>2, <4>3
    <3> HIDE DEF old, new, joined
    <3>11. runs' = joined
      BY <2>1, <2>12 DEF joined
    <3>12. Listed'
      BY <3>4, <3>8, <3>9, <3>10, <3>11, <2>1, <2>4, <1>2 DEF Listed, Shown, OfScope
    <3> QED
      BY <3>12, <2>6, <2>7 DEF FeedInv
  <2> QED
    BY <2>10, <2>11, <2>12, <2>4
<1> QED
  BY <1>6, <1>7

LEMMA FeedStep ==
  ASSUME FeedInv, [FeedNext]_feedVars
  PROVE  FeedInv'
<1>1. CASE FetchActivity \/ FetchMore
  BY <1>1, FetchStep
<1>2. CASE \E sc \in Scopes : SetScope(sc)
  BY <1>2, SetScopeStep
<1>3. CASE ReadRuns
  BY <1>3, ReadRunsStep, FeedAssumption
<1>4. CASE TakeRuns
  BY <1>4, TakeRunsStep
<1>5. CASE AddRun
  BY <1>5, AddRunStep
<1>6. CASE UNCHANGED feedVars
  BY <1>6 DEF feedVars, FeedInv, FeedShape, Fetches, Listed, Newest, Shown, OfScope
<1> QED
  BY <1>1, <1>2, <1>3, <1>4, <1>5, <1>6 DEF FeedNext

\* The Activity list is one piece of its scope's history: whatever order the answers of
\* GET /api/audit/runs come in, and however many runs are added between the pages, it has no run
\* of another scope, none twice and none missing between its first and its last.
THEOREM FeedKeepsWhole == FeedSpec => []FeedIsWhole
<1>1. FeedInit => FeedInv
  BY FeedInitInv
<1>2. FeedInv /\ [FeedNext]_feedVars => FeedInv'
  BY FeedStep
<1>3. FeedInv => FeedIsWhole
  BY ListedIsWhole
<1> QED
  BY <1>1, <1>2, <1>3, PTL DEF FeedSpec

-----------------------------------------------------------------------------
\* The run list as a window on the history of its scope: what is offered is there, and the newest
\* fetch brings nothing older than what it replaces.

Older(sc, list) == list # <<>> /\ OfScope(sc, Last(list)) # {}

Ahead ==
  /\ hasMore => Older(scope, runs)
  /\ \A f \in flight :
       /\ f.answer.state = "ok" /\ f.answer.more => Older(f.scope, f.answer.page)
       /\ f.request = request /\ f.append => hasMore
       /\ f.request = request /\ ~f.append /\ f.answer.state = "ok" /\ runs # <<>> =>
            f.answer.page # <<>> /\ Head(runs) <= Head(f.answer.page)

LEMMA OlderGrows ==
  ASSUME stored \in Nat, stored' \in Nat, stored <= stored', NEW sc, NEW list, Older(sc, list)
  PROVE  Older(sc, list)'
BY DEF Older, OfScope

\* An answer reads the newest runs of its scope, and says whether there are older ones.
LEMMA AnswerIsAhead ==
  ASSUME FeedAssumption, stored \in Nat, NEW f \in Fetching, NEW a, a = AnswerOf(f)
  PROVE  /\ a.more => Older(f.scope, a.page)
         /\ \A r \in OfScope(f.scope, f.before) : a.page # <<>> /\ r <= Head(a.page)
<1> DEFINE S == OfScope(f.scope, f.before)
           all == Descending(S)
           k == IF Len(all) < Page THEN Len(all) ELSE Page
           page == SubSeq(all, 1, k)
<1>1. a = [page |-> page, more |-> Len(all) > Page, state |-> "ok"]
  BY DEF AnswerOf
<1>2. S \in SUBSET Nat /\ IsFiniteSet(S) /\ S \in SUBSET (1 .. stored)
  BY FiniteScope
<1>3. Lists(all, S)
  BY <1>2, DescendingLists
<1>4. Page \in Nat /\ Page # 0
  BY DEF FeedAssumption
<1> HIDE DEF all
<1>5. all \in Seq(Nat) /\ Len(all) \in Nat
  BY <1>3 DEF Lists
<1>6. k \in 0 .. Len(all) /\ (Len(all) # 0 => k \in 1 .. Len(all)) /\ (Len(all) > Page => k < Len(all))
  BY <1>4, <1>5
<1> HIDE DEF k
<1>7. page \in Seq(Nat) /\ Len(page) = k /\ \A i \in 1 .. k : page[i] = all[i]
  BY <1>5, <1>6
<1> HIDE DEF page
<1>8. a.page = page /\ a.more = (Len(all) > Page)
  BY <1>1
<1>9. ASSUME NEW r \in S
      PROVE  page # <<>> /\ r <= Head(page)
  <2>1. PICK i \in 1 .. Len(all) : all[i] = r
    BY <1>3 DEF Lists
  <2>2. k \in 1 .. Len(all) /\ page # <<>>
    BY <2>1, <1>5, <1>6, <1>7
  <2>3. Head(page) = all[1]
    BY <2>2, <1>7
  <2>4. 1 \in 1 .. Len(all) /\ (i = 1 \/ 1 < i)
    BY <2>1, <1>5
  <2>5. i = 1 \/ all[1] > all[i]
    BY <2>1, <2>4, <1>3 DEF Lists
  <2>6. all[i] \in Nat /\ all[1] \in Nat
    BY <2>1, <2>4, <1>5
  <2> QED
    BY <2>1, <2>2, <2>3, <2>5, <2>6
<1>10. ASSUME Len(all) > Page
       PROVE  Older(f.scope, page)
  <2>1. k \in 1 .. Len(all) /\ k + 1 \in 1 .. Len(all) /\ k < k + 1
    BY <1>4, <1>5, <1>6, <1>10
  <2>2. page # <<>> /\ Last(page) = all[k]
    BY <2>1, <1>7 DEF Last
  <2>3. all[k] > all[k + 1] /\ all[k] \in S /\ all[k + 1] \in S
    BY <2>1, <1>3 DEF Lists
  <2>4. all[k + 1] \in OfScope(f.scope, all[k])
    BY <2>3 DEF OfScope
  <2> QED
    BY <2>2, <2>4 DEF Older
<1> QED
  BY <1>8, <1>9, <1>10

\* A list without a gap is a window, and offers what is older.
LEMMA WindowOf ==
  ASSUME stored \in Nat, NEW s, s # <<>> => Lists(s, Shown(scope, 0, s))
  PROVE  History!Window(s) /\ (History!Offered(s) <=> Older(scope, s))
<1>1. History!OfHistory = OfScope(scope, 0)
  BY DEF History!OfHistory, OfScope
<1>2. CASE s = <<>>
  BY <1>2 DEF History!Window, History!Offered, Older
<1>3. CASE s # <<>>
  <2> DEFINE S == Shown(scope, 0, s)
  <2>1. Lists(s, S)
    BY <1>3
  <2>2. S = {r \in History!OfHistory : r <= Head(s) /\ r >= Last(s)}
    BY <1>1 DEF Shown
  <2>3. Last(s) \in 1 .. stored
    BY <1>3, <2>1, EndsStored
  <2> HIDE DEF S
  <2>4. DOMAIN s = 1 .. Len(s) /\ Last(s) = History!Oldest(s)
    BY <2>1 DEF Lists, Last, History!Oldest
  <2>5. {s[i] : i \in DOMAIN s} = S
    BY <2>1, <2>4 DEF Lists
  <2>6. \A i \in DOMAIN s, j \in DOMAIN s : i < j => s[i] > s[j]
    BY <2>1, <2>4 DEF Lists
  <2>7. History!Gapless(s)
    BY <2>2, <2>4, <2>5, <2>6 DEF History!Gapless
  <2>8. (\E r \in History!OfHistory : r < Last(s)) <=> OfScope(scope, Last(s)) # {}
    BY <1>1, <2>3 DEF OfScope
  <2> QED
    BY <1>3, <2>4, <2>7, <2>8 DEF History!Window, History!Offered, Older
<1> QED
  BY <1>2, <1>3

\* A fetch that starts leaves the list, and is ahead of it.
LEMMA FetchAhead ==
  ASSUME FeedInv, Ahead, NEW append \in BOOLEAN, NEW sc, NEW listed,
         FetchRuns(append, sc, listed), append => hasMore', stored' = stored,
         hasMore' => Older(scope', runs')
  PROVE  Ahead'
<1> DEFINE n == [request |-> request', scope |-> sc, append |-> append,
                 before |-> IF append /\ listed # <<>> THEN Last(listed) ELSE 0, answer |-> Pending]
<1>1. /\ flight' = flight \cup {n} /\ n.append = append /\ n.answer.state = "pending"
      /\ n.request = request'
  BY DEF FetchRuns, Pending
<1> HIDE DEF n
<1>2. request' = request + 1 /\ request \in Nat /\ \A f \in flight : f.request \in Nat /\ f.request <= request
  BY DEF FetchRuns, FeedInv, FeedShape, Fetches, Fetching
<1>3. \A f \in flight : f.request # request'
  BY <1>2
<1>4. \A sd, list : Older(sd, list)' <=> Older(sd, list)
  BY DEF Older, OfScope
<1>5. (hasMore => Older(scope, runs))'
  BY DEF Older, OfScope
<1>6. \A f \in flight : f.answer.state = "ok" /\ f.answer.more => Older(f.scope, f.answer.page)'
  BY <1>4 DEF Ahead
<1>7. \A f \in flight' : f \in flight \/ f = n
  BY <1>1
<1> QED
  BY <1>1, <1>3, <1>5, <1>6, <1>7 DEF Ahead

LEMMA AheadFetch ==
  ASSUME FeedInv, Ahead, FetchActivity \/ FetchMore
  PROVE  Ahead' /\ UNCHANGED <<stored, scope, runs, hasMore>>
<1>1. /\ UNCHANGED <<stored, scope, runs, hasMore>>
      /\ FetchRuns(FALSE, scope, runs) \/ (hasMore /\ FetchRuns(TRUE, scope, runs))
  BY DEF FetchActivity, FetchMore
<1>2. hasMore' => Older(scope', runs')
  BY <1>1 DEF Ahead
<1>3. CASE FetchRuns(FALSE, scope, runs)
  BY <1>1, <1>2, <1>3, FetchAhead
<1>4. CASE hasMore /\ FetchRuns(TRUE, scope, runs)
  BY <1>1, <1>2, <1>4, FetchAhead
<1> QED
  BY <1>1, <1>3, <1>4

LEMMA AheadScope ==
  ASSUME FeedInv, Ahead, NEW sc \in Scopes, SetScope(sc)
  PROVE  Ahead' /\ History!HistoryNext
<1>1. /\ sc # scope /\ scope' = sc /\ runs' = <<>> /\ hasMore' = FALSE /\ stored' = stored
      /\ FetchRuns(FALSE, sc, <<>>)
  BY DEF SetScope
<1>2. Ahead'
  BY <1>1, FetchAhead
<1>3. History!Open(sc)
  BY <1>1 DEF History!Open
<1> QED
  BY <1>2, <1>3 DEF History!HistoryNext, Scopes

LEMMA AheadAdd ==
  ASSUME FeedInv, Ahead, AddRun
  PROVE  Ahead' /\ History!HistoryNext
<1>1. /\ stored \in Nat /\ stored' = stored + 1 /\ stored' \in Nat /\ stored <= stored'
      /\ UNCHANGED <<scope, runs, hasMore, request, flight>>
  BY DEF AddRun, FeedInv, FeedShape
<1>2. \A sc, list : Older(sc, list) => Older(sc, list)'
  BY <1>1, OlderGrows
<1>3. \A f \in flight : f.answer.state = "ok" /\ f.answer.more => Older(f.scope, f.answer.page)'
  BY <1>2 DEF Ahead
<1>4. hasMore => Older(scope, runs)'
  <2>1. hasMore => Older(scope, runs)
    BY DEF Ahead
  <2> QED
    BY <2>1, <1>1, OlderGrows DEF Older, OfScope
<1>5. Ahead'
  BY <1>1, <1>3, <1>4 DEF Ahead
<1>6. History!Grow
  BY <1>1 DEF History!Grow
<1> QED
  BY <1>5, <1>6 DEF History!HistoryNext

\* An answer read for the newest fetch of a whole list starts no earlier than the list: every run
\* shown was stored by then.
LEMMA AheadRead ==
  ASSUME FeedAssumption, FeedInv, Ahead, ReadRuns
  PROVE  Ahead' /\ UNCHANGED <<stored, scope, runs, hasMore>>
<1>0. PICK f \in flight : \E a \in {AnswerOf(f), [Pending EXCEPT !.state = "error"]} :
        flight' = (flight \ {f}) \cup {[f EXCEPT !.answer = a]}
  BY DEF ReadRuns
<1>1. PICK a \in {AnswerOf(f), [Pending EXCEPT !.state = "error"]} :
        flight' = (flight \ {f}) \cup {[f EXCEPT !.answer = a]}
  BY <1>0
<1> DEFINE g == [f EXCEPT !.answer = a]
<1>2. UNCHANGED <<stored, scope, runs, hasMore, request>>
  BY DEF ReadRuns
<1>3. stored \in Nat /\ f \in Fetching /\ runs \in Seq(Nat)
  BY DEF FeedInv, FeedShape
<1>4. /\ g.request = f.request /\ g.scope = f.scope /\ g.append = f.append /\ g.before = f.before
      /\ g.answer = a
  BY <1>3 DEF Fetching
<1>5. flight' = (flight \ {f}) \cup {g}
  BY <1>1
<1> HIDE DEF g
<1>6. a.state = "ok" => a = AnswerOf(f)
  BY DEF Pending
<1>7. a.state = "ok" => /\ a.more => Older(f.scope, a.page)
                        /\ \A r \in OfScope(f.scope, f.before) : a.page # <<>> /\ r <= Head(a.page)
  BY <1>3, <1>6, AnswerIsAhead
<1>8. f.request = request => /\ f.scope = scope /\ (~f.append => f.before = 0) /\ (f.append => hasMore)
  BY DEF FeedInv, Fetches, Ahead
<1>9. runs # <<>> => Head(runs) \in OfScope(scope, 0)
  BY ListsEnds DEF FeedInv, Listed, Shown
<1>10. g.request = request /\ ~g.append /\ g.answer.state = "ok" /\ runs # <<>> =>
         g.answer.page # <<>> /\ Head(runs) <= Head(g.answer.page)
  BY <1>4, <1>7, <1>8, <1>9
<1>11. \A sc, list : Older(sc, list)' <=> Older(sc, list)
  BY <1>2 DEF Older, OfScope
<1>12. \A h \in flight' : h \in flight \/ h = g
  BY <1>5
<1>13. \A h \in flight' :
         /\ h.answer.state = "ok" /\ h.answer.more => Older(h.scope, h.answer.page)
         /\ h.request = request /\ h.append => hasMore
         /\ h.request = request /\ ~h.append /\ h.answer.state = "ok" /\ runs # <<>> =>
              h.answer.page # <<>> /\ Head(runs) <= Head(h.answer.page)
  BY <1>4, <1>7, <1>8, <1>10, <1>12 DEF Ahead
<1>14. (hasMore => Older(scope, runs))'
  BY <1>2 DEF Ahead, Older, OfScope
<1> QED
  BY <1>2, <1>11, <1>13, <1>14 DEF Ahead

\* What is listed after a step is a window, and More is offered as it should.
LEMMA ListIsWindow ==
  ASSUME FeedInv', Ahead', UNCHANGED <<stored, scope>>, stored \in Nat, hasMore' \in BOOLEAN
  PROVE  History!Window(runs') /\ hasMore' = History!Offered(runs')
<1>1. runs' # <<>> => Lists(runs', Shown(scope, 0, runs')) /\ (~hasMore' => OfScope(scope, Last(runs')) = {})
  BY DEF FeedInv, Listed, Shown, OfScope
<1>2. runs' = <<>> => ~hasMore'
  BY DEF FeedInv, Listed
<1>3. hasMore' => Older(scope, runs')
  BY DEF Ahead, Older, OfScope
<1>4. Older(scope, runs') => hasMore'
  BY <1>1, <1>2 DEF Older
<1>5. History!Window(runs') /\ (History!Offered(runs') <=> Older(scope, runs'))
  BY <1>1, WindowOf
<1>6. History!Offered(runs') \in BOOLEAN
  BY DEF History!Offered
<1> QED
  BY <1>3, <1>4, <1>5, <1>6

\* The newest answer renews the list or extends it, any other leaves it.
LEMMA AheadTake ==
  ASSUME FeedInv, FeedInv', Ahead, TakeRuns
  PROVE  Ahead' /\ (UNCHANGED <<stored, scope, runs, hasMore>> \/ History!Renew \/ History!Extend)
<1>1. PICK f \in flight :
        /\ flight' = flight \ {f}
        /\ IF Current(f) /\ f.answer.state = "ok"
           THEN /\ runs' = IF f.append THEN runs \o f.answer.page ELSE f.answer.page
                /\ hasMore' = f.answer.more
           ELSE UNCHANGED <<runs, hasMore>>
  BY DEF TakeRuns
<1>2. UNCHANGED <<stored, scope, request>>
  BY DEF TakeRuns
<1>3. stored \in Nat /\ f \in Fetching /\ runs \in Seq(Nat)
  BY DEF FeedInv, FeedShape
<1>4. \A h \in flight' : h \in flight /\ h # f
  BY <1>1
<1>5. \A sc, list : Older(sc, list)' <=> Older(sc, list)
  BY <1>2 DEF Older, OfScope
<1>6. \A h \in flight' : h.answer.state = "ok" /\ h.answer.more => Older(h.scope, h.answer.page)'
  BY <1>4, <1>5 DEF Ahead
<1>7. CASE ~(Current(f) /\ f.answer.state = "ok")
  <2>1. UNCHANGED <<runs, hasMore>>
    BY <1>1, <1>7
  <2>2. (hasMore => Older(scope, runs))'
    BY <2>1, <1>2 DEF Ahead, Older, OfScope
  <2>3. Ahead'
    BY <2>1, <2>2, <1>2, <1>4, <1>6 DEF Ahead
  <2> QED
    BY <2>1, <2>3, <1>2
<1>8. CASE Current(f) /\ f.answer.state = "ok"
  <2> DEFINE page == f.answer.page
  <2>1. runs' = (IF f.append THEN runs \o page ELSE page) /\ hasMore' = f.answer.more
    BY <1>1, <1>8
  <2>2. /\ f.request = request /\ f.scope = scope
        /\ f.append => runs # <<>> /\ f.before = Last(runs) /\ hasMore
        /\ ~f.append /\ runs # <<>> => page # <<>> /\ Head(runs) <= Head(page)
        /\ f.answer.more => Older(scope, page)
    BY <1>8 DEF Current, FeedInv, Fetches, Ahead
  <2>3. page \in Seq(Nat) /\ f.answer.more \in BOOLEAN /\ f.append \in BOOLEAN
    BY <1>3 DEF Fetching
  <2>4. f.append => page # <<>>
    <3> SUFFICES ASSUME f.append, page = <<>> PROVE FALSE
      OBVIOUS
    <3>1. Older(scope, runs) /\ runs # <<>>
      BY <2>2 DEF Ahead
    <3>2. f.before # 0 => OfScope(scope, f.before) = {}
      BY <2>2, <1>8 DEF Newest, FeedInv, Fetches
    <3>3. Last(runs) \in 1 .. stored
      BY <3>1, <1>3, EndsStored DEF FeedInv, Listed
    <3> QED
      BY <3>1, <3>2, <3>3, <2>2 DEF Older
  <2> HIDE DEF page
  <2>5. \A h \in flight' : h.request # request
    BY <2>2, <1>4 DEF FeedInv, Fetches
  <2>6. f.append => /\ Len(runs') > Len(runs) /\ SubSeq(runs', 1, Len(runs)) = runs
                    /\ runs' # <<>> /\ Last(runs') = Last(page)
    <3> SUFFICES ASSUME f.append
                 PROVE  /\ Len(runs') > Len(runs) /\ SubSeq(runs', 1, Len(runs)) = runs
                        /\ runs' # <<>> /\ Last(runs') = Last(page)
      OBVIOUS
    <3> DEFINE joined == runs \o page
    <3>1. runs' = joined
      BY <2>1
    <3>2. /\ joined \in Seq(Nat) /\ Len(joined) = Len(runs) + Len(page)
          /\ \A i \in 1 .. Len(runs) + Len(page) :
               joined[i] = IF i <= Len(runs) THEN runs[i] ELSE page[i - Len(runs)]
      BY <2>3, <1>3, ConcatProperties
    <3>3. Len(runs) \in Nat /\ Len(page) \in Nat /\ Len(page) # 0
      BY <2>3, <2>4, <1>3
    <3> HIDE DEF joined
    <3>4. Len(joined) > Len(runs) /\ joined # <<>> /\ Len(joined) # 0
      BY <3>2, <3>3
    <3>5. joined[Len(joined)] = page[Len(page)]
      <4>1. /\ Len(runs) + Len(page) \in 1 .. Len(runs) + Len(page)
            /\ ~(Len(runs) + Len(page) <= Len(runs))
            /\ Len(runs) + Len(page) - Len(runs) = Len(page)
        BY <3>3
      <4> QED
        BY <4>1, <3>2
    <3>6. SubSeq(joined, 1, Len(runs)) = runs
      <4> DEFINE head == SubSeq(joined, 1, Len(runs))
      <4>1. head \in Seq(Nat) /\ Len(head) = Len(runs) /\ \A i \in 1 .. Len(runs) : head[i] = joined[i]
        BY <3>2, <3>3
      <4>2. \A i \in 1 .. Len(runs) : joined[i] = runs[i]
        BY <3>2, <3>3
      <4> HIDE DEF head
      <4>3. head = runs
        BY <4>1, <4>2, <1>3, SeqEqual
      <4> QED
        BY <4>3 DEF head
    <3> QED
      BY <3>1, <3>4, <3>5, <3>6 DEF Last
  <2>7. hasMore' => Older(scope, runs')
    <3>1. CASE f.append
      <4>1. hasMore' => Older(scope, page)
        BY <2>1, <2>2
      <4> QED
        BY <3>1, <4>1, <2>6 DEF Older
    <3>2. CASE ~f.append
      BY <3>2, <2>1, <2>2
    <3> QED
      BY <3>1, <3>2
  <2>8. (hasMore => Older(scope, runs))'
    BY <2>7, <1>2 DEF Older, OfScope
  <2>9. Ahead'
    BY <2>5, <2>8, <1>2, <1>6 DEF Ahead
  <2>10. hasMore' \in BOOLEAN
    BY <2>1, <2>3
  <2>11. History!Window(runs') /\ hasMore' = History!Offered(runs')
    BY <2>9, <2>10, <1>2, <1>3, ListIsWindow
  <2>12. CASE f.append
    <3>1. History!Extend
      BY <2>2, <2>6, <2>11, <2>12, <1>2 DEF History!Extend
    <3> QED
      BY <3>1, <2>9
  <2>13. CASE ~f.append
    <3>1. runs # <<>> => runs' # <<>> /\ Head(runs) <= Head(runs')
      BY <2>1, <2>2, <2>13
    <3>2. runs # <<>> => Head(runs) \in Nat
      BY <1>3
    <3>3. runs' # <<>> => Head(runs') \in Nat
      BY <2>1, <2>3, <2>13
    <3>4. runs # <<>> => runs' # <<>> /\ Head(runs') >= Head(runs)
      BY <3>1, <3>2, <3>3
    <3>5. History!Renew
      BY <3>4, <2>11, <1>2 DEF History!Renew
    <3> QED
      BY <3>5, <2>9
  <2> QED
    BY <2>12, <2>13, <2>3
<1> QED
  BY <1>7, <1>8

\* The Activity list is a window on the history of its scope, for any number of runs, scopes,
\* page size and fetches: each answer taken continues what is shown with older runs or replaces it
\* with something no older, and every other step leaves it (activity.js fetchRuns).
THEOREM FeedIsAWindow == FeedSpec => ImplementsHistory
<1>1. FeedInit => FeedInv /\ Ahead /\ History!HistoryInit
  <2>1. FeedInit => Ahead /\ History!HistoryInit
    BY DEF FeedInit, Ahead, History!HistoryInit
  <2> QED
    BY <2>1, FeedInitInv
<1>2. FeedInv /\ Ahead /\ [FeedNext]_feedVars =>
        FeedInv' /\ Ahead' /\ [History!HistoryNext]_(History!historyVars)
  <2> SUFFICES ASSUME FeedInv, Ahead, [FeedNext]_feedVars
               PROVE  FeedInv' /\ Ahead' /\ [History!HistoryNext]_(History!historyVars)
    OBVIOUS
  <2>1. FeedInv'
    BY FeedStep
  <2> DEFINE Still == UNCHANGED <<stored, scope, runs, hasMore>>
  <2>2. Ahead' /\ (History!HistoryNext \/ Still)
    <3>1. CASE FetchActivity \/ FetchMore
      BY <3>1, AheadFetch
    <3>2. CASE \E sc \in Scopes : SetScope(sc)
      BY <3>2, AheadScope
    <3>3. CASE ReadRuns
      BY <3>3, AheadRead, FeedAssumption
    <3>4. CASE TakeRuns
      BY <3>4, <2>1, AheadTake DEF History!HistoryNext
    <3>5. CASE AddRun
      BY <3>5, AheadAdd
    <3>6. CASE UNCHANGED feedVars
      BY <3>6 DEF feedVars, Ahead, Older, OfScope
    <3> QED
      BY <3>1, <3>2, <3>3, <3>4, <3>5, <3>6 DEF FeedNext
  <2>3. Still => UNCHANGED History!historyVars
    BY DEF History!historyVars
  <2> QED
    BY <2>1, <2>2, <2>3
<1> QED
  BY <1>1, <1>2, PTL DEF FeedSpec, ImplementsHistory, History!HistorySpec
=============================================================================
