------------------------- MODULE SubmissionsProofs -------------------------
(***************************************************************************)
(* Proofs about submit() and resubmit(), for every number of workers that  *)
(* take up the job, of attempts of a call, and every behaviour of the      *)
(* network and of the service that SqlApi allows.                          *)
(***************************************************************************)
EXTENDS Submissions, FiniteSetTheorems, TLAPS

\* An execution that still counts.
Alive(s) == s \in {"running", "committed"}

LEMMA Ranges ==
    /\ None \notin Execs /\ Handles = Execs \cup {None}
    /\ NoRequest \notin Requests
    /\ \A e \in Execs : /\ e[1] \in Requests /\ e[2] \in Nat /\ e[2] >= 1
                        /\ e[2] <= MaxAttempts /\ e = <<e[1], e[2]>>
    /\ \A e \in Execs : e \in Effective <=> Alive(stmt[e])
<1>1. None \notin Execs /\ Handles = Execs \cup {None}
  BY SqlApiAssumption DEF None, Execs, Handles
<1>2. NoRequest \notin Requests
  BY SqlApiAssumption DEF NoRequest, Requests
<1>3. \A e \in Execs : /\ e[1] \in Requests /\ e[2] \in Nat /\ e[2] >= 1
                       /\ e[2] <= MaxAttempts /\ e = <<e[1], e[2]>>
  BY SqlApiAssumption DEF Execs
<1>4. \A e \in Execs : e \in Effective <=> Alive(stmt[e])
  BY DEF Effective, Alive
<1>5. QED BY <1>1, <1>2, <1>3, <1>4

\* Two executions of one id that still count are one.
LEMMA OneAlive ==
    ASSUME ServerInv, OnceInv, NEW e \in Execs, NEW f \in Execs, e[1] = f[1],
           Alive(stmt[e]), Alive(stmt[f])
    PROVE  e = f
<1>1. ran[e] = e /\ ran[f] = f /\ e # None /\ f # None
  BY Ranges DEF ServerInv, Alive
<1>2. e \in Effective /\ f \in Effective
  BY Ranges
<1>3. e[2] \in Nat /\ f[2] \in Nat
  BY Ranges
<1>4. CASE f[2] <= e[2]
  BY <1>1, <1>2, <1>4 DEF OnceInv
<1>5. CASE e[2] <= f[2]
  BY <1>1, <1>2, <1>5 DEF OnceInv
<1>6. QED BY <1>3, <1>4, <1>5

-----------------------------------------------------------------------------
(* Steps of the service and the network.                                    *)

\* Whatever they do, nothing new gets under way, executions do not disappear, what is
\* committed stays so, and once nothing is in flight nothing is started.
ServerFrame ==
    /\ job' = job /\ worker' = worker /\ posts' = posts
    /\ net' \subseteq net
    /\ \A e \in Execs : stmt[e] # "none" => stmt'[e] # "none"
    /\ \A e \in Execs : stmt[e] = "committed" => stmt'[e] = "committed"
    /\ net = {} => ran' = ran /\ \A e \in Execs : Alive(stmt'[e]) => Alive(stmt[e])

ServerGood == ServerTypeOK' /\ ServerInv' /\ (Reliable => OnceInv') /\ ServerFrame

\* What a step that takes a POST from the network starts from.
LEMMA TakenFacts ==
    ASSUME Inv, NEW m \in net
    PROVE  /\ net \subseteq [id : Execs, retry : BOOLEAN] /\ ran \in [Execs -> Handles]
           /\ stmt \in [Execs -> {"none", "running", "committed", "aborted"}]
           /\ cancels \subseteq Execs /\ m.id \in Execs
           /\ ran[m.id] = None /\ stmt[m.id] = "none" /\ m.id # None
           /\ m.id[2] <= posts[m.id[1]]
           /\ \A o \in net \ {m} : o \in net /\ o.id \in Execs /\ o.id # m.id
<1>1. /\ net \subseteq [id : Execs, retry : BOOLEAN] /\ ran \in [Execs -> Handles]
      /\ stmt \in [Execs -> {"none", "running", "committed", "aborted"}]
      /\ cancels \subseteq Execs
  BY DEF Inv, TypeOK, ServerTypeOK
<1>2. m.id \in Execs /\ ran[m.id] = None /\ m.id[2] <= posts[m.id[1]] /\ m.id # None
  BY <1>1, Ranges DEF Inv, ServerInv
<1>3. stmt[m.id] = "none"
  BY <1>2 DEF Inv, ServerInv
<1>4. \A o \in net \ {m} : o \in net /\ o.id \in Execs /\ o.id # m.id
  BY <1>1 DEF Inv, ServerInv
<1>5. QED BY <1>1, <1>2, <1>3, <1>4

\* A POST is taken and given the execution x, a new one or one on record.
LEMMA TakeServer ==
    ASSUME Inv, UNCHANGED <<job, worker, posts>>, NEW m \in net, Turn(m),
           NEW x \in Execs, x[1] = m.id[1], net' = net \ {m},
           ran' = [ran EXCEPT ![m.id] = x], cancels' = cancels,
           \/ x = m.id /\ stmt' = [stmt EXCEPT ![m.id] = "running"]
           \/ stmt[x] # "none" /\ stmt' = stmt,
           Reliable => \A f \in Execs :
               f[1] = m.id[1] /\ Alive(stmt[f]) /\ f[2] <= m.id[2] => x = f
    PROVE  ServerGood
<1> DEFINE id == m.id
<1>1. /\ net \subseteq [id : Execs, retry : BOOLEAN] /\ ran \in [Execs -> Handles]
      /\ stmt \in [Execs -> {"none", "running", "committed", "aborted"}]
      /\ cancels \subseteq Execs /\ id \in Execs
      /\ ran[id] = None /\ stmt[id] = "none" /\ id # None
      /\ id[2] <= posts[id[1]]
      /\ \A o \in net \ {m} : o \in net /\ o.id \in Execs /\ o.id # id
  BY TakenFacts
<1>2. /\ \A e \in Execs : stmt[e] # "none" => ran[e] = e
      /\ \A e \in Execs : ran[e] # None =>
           e[2] <= posts[e[1]] /\ ran[e][1] = e[1] /\ stmt[ran[e]] # "none"
      /\ \A o \in net : o.id[2] <= posts[o.id[1]] /\ ran[o.id] = None
      /\ \A o, q \in net : o.id = q.id => o = q
  BY DEF Inv, ServerInv
<1>3. /\ stmt' \in [Execs -> {"none", "running", "committed", "aborted"}]
      /\ stmt'[x] # "none"
      /\ \A e \in Execs : e # id => stmt'[e] = stmt[e]
      /\ stmt'[id] # "none" => x = id
  BY <1>1
<1>4. /\ ran' \in [Execs -> Handles] /\ ran'[id] = x
      /\ \A e \in Execs : e # id => ran'[e] = ran[e]
  BY <1>1, Ranges
<1> HIDE DEF id
<1>5. ServerTypeOK'
  BY <1>1, <1>3, <1>4 DEF ServerTypeOK
<1>6. ServerInv'
  <2>1. \A e \in Execs : stmt'[e] # "none" => ran'[e] = e
    BY <1>1, <1>2, <1>3, <1>4
  <2>2. ASSUME NEW e \in Execs, ran'[e] # None
        PROVE  e[2] <= posts'[e[1]] /\ ran'[e][1] = e[1] /\ stmt'[ran'[e]] # "none"
    <3>1. CASE e = id
      BY <1>1, <1>3, <1>4, <3>1 DEF id
    <3>2. CASE e # id
      <4>1. ran'[e] = ran[e] /\ ran[e] \in Execs
        BY <1>1, <1>4, <2>2, <3>2, Ranges
      <4>2. stmt[ran[e]] # "none" /\ ran[e] # id
        BY <1>1, <1>2, <2>2, <4>1
      <4>3. QED BY <1>2, <1>3, <2>2, <4>1, <4>2
    <3>3. QED BY <3>1, <3>2
  <2>3. \A o \in net' : o.id[2] <= posts'[o.id[1]] /\ ran'[o.id] = None
    BY <1>1, <1>2, <1>4
  <2>4. \A o, q \in net' : o.id = q.id => o = q
    BY <1>2
  <2>5. QED BY <2>1, <2>2, <2>3, <2>4 DEF ServerInv
<1>7. ASSUME Reliable PROVE OnceInv'
  <2>1. /\ \A o \in net : ~ o.retry => o.id[2] = 1
        /\ \A o \in net, e \in Execs : o.id[1] = e[1] /\ ran[e] # None => e[2] < o.id[2]
        /\ \A e, f \in Execs :
             e[1] = f[1] /\ ran[e] # None /\ f \in Effective /\ f[2] <= e[2] => ran[e] = f
    BY <1>7 DEF Inv, OnceInv
  <2>2. \A o \in net' : ~ o.retry => o.id[2] = 1
    BY <2>1
  <2>3. ASSUME NEW o \in net', NEW e \in Execs, o.id[1] = e[1], ran'[e] # None
        PROVE  e[2] < o.id[2]
    <3>1. o \in net /\ o.id \in Execs /\ o.id # id
      BY <1>1
    <3>2. CASE e = id
      <4>1. id[2] <= o.id[2]
        BY <1>7, <2>3, <3>1, <3>2 DEF Turn, Reliable, id
      <4>2. id[2] # o.id[2]
        BY <1>1, <2>3, <3>1, <3>2, Ranges
      <4>3. id[2] \in Nat /\ o.id[2] \in Nat
        BY <1>1, <3>1, Ranges
      <4>4. QED BY <3>2, <4>1, <4>2, <4>3
    <3>3. CASE e # id
      BY <1>4, <2>1, <2>3, <3>1, <3>3
    <3>4. QED BY <3>2, <3>3
  <2>4. ASSUME NEW e \in Execs, NEW f \in Execs, e[1] = f[1], ran'[e] # None,
               Alive(stmt'[f]), f[2] <= e[2]
        PROVE  ran'[e] = f
    <3>1. CASE f = id /\ e = id
      BY <1>3, <1>4, <2>4, <3>1 DEF Alive
    <3>2. CASE f = id /\ e # id
      <4>1. e[2] < id[2]
        BY <1>4, <2>1, <2>4, <3>2 DEF id
      <4>2. QED BY <2>4, <3>2, <4>1, Ranges
    <3>3. CASE f # id /\ e = id
      <4>1. Alive(stmt[f]) /\ f[1] = id[1] /\ f[2] <= id[2]
        BY <1>3, <2>4, <3>3
      <4>2. QED BY <1>4, <1>7, <3>3, <4>1 DEF id
    <3>4. CASE f # id /\ e # id
      <4>1. Alive(stmt[f]) /\ ran'[e] = ran[e]
        BY <1>3, <1>4, <2>4, <3>4
      <4>2. QED BY <2>1, <2>4, <4>1, Ranges
    <3>5. QED BY <3>1, <3>2, <3>3, <3>4
  <2>5. \A f \in Execs : f \in Effective' <=> Alive(stmt'[f])
    BY DEF Effective, Alive
  <2>6. QED BY <2>2, <2>3, <2>4, <2>5 DEF OnceInv
<1>8. ServerFrame
  <2>1. /\ \A e \in Execs : stmt[e] # "none" => stmt'[e] # "none"
        /\ \A e \in Execs : stmt[e] = "committed" => stmt'[e] = "committed"
    BY <1>1, <1>3
  <2>2. net # {}
    OBVIOUS
  <2>3. QED BY <2>1, <2>2 DEF ServerFrame
<1>9. QED BY <1>5, <1>6, <1>7, <1>8 DEF ServerGood

\* Nothing is taken; executions may end.
LEMMA EndServer ==
    ASSUME Inv, UNCHANGED <<job, worker, posts>>,
           net' \subseteq net, ran' = ran, cancels' \subseteq cancels,
           stmt' \in [Execs -> {"none", "running", "committed", "aborted"}],
           \A e \in Execs : /\ stmt'[e] # "none" <=> stmt[e] # "none"
                            /\ Alive(stmt'[e]) => Alive(stmt[e])
                            /\ stmt[e] = "committed" => stmt'[e] = "committed"
    PROVE  ServerGood
<1>1. /\ net \subseteq [id : Execs, retry : BOOLEAN] /\ ran \in [Execs -> Handles]
      /\ cancels \subseteq Execs
  BY DEF Inv, TypeOK, ServerTypeOK
<1>2. /\ \A e \in Execs : stmt[e] # "none" => ran[e] = e
      /\ \A e \in Execs : ran[e] # None =>
           e[2] <= posts[e[1]] /\ ran[e][1] = e[1] /\ stmt[ran[e]] # "none"
      /\ \A o \in net : o.id[2] <= posts[o.id[1]] /\ ran[o.id] = None
      /\ \A o, q \in net : o.id = q.id => o = q
  BY DEF Inv, ServerInv
<1>3. ServerTypeOK'
  BY <1>1 DEF ServerTypeOK
<1>4. ServerInv'
  <2>1. \A e \in Execs : ran'[e] # None =>
          e[2] <= posts'[e[1]] /\ ran'[e][1] = e[1] /\ stmt'[ran'[e]] # "none"
    <3>1. TAKE e \in Execs
    <3>2. HAVE ran'[e] # None
    <3>3. ran[e] \in Execs
      BY <1>1, <3>1, <3>2, Ranges
    <3>4. QED BY <1>2, <3>1, <3>2, <3>3
  <2>2. QED BY <1>2, <2>1 DEF ServerInv
<1>5. ASSUME Reliable PROVE OnceInv'
  <2>1. OnceInv
    BY <1>5 DEF Inv
  <2>2. \A f \in Execs : f \in Effective' => f \in Effective
    BY DEF Effective, Alive
  <2>3. QED BY <2>1, <2>2 DEF OnceInv
<1>6. ServerFrame
  BY DEF ServerFrame
<1>7. QED BY <1>3, <1>4, <1>5, <1>6 DEF ServerGood

\* A POST is run as a new statement: none of its id counts that was sent before it.
LEMMA StartServer ==
    ASSUME Inv, UNCHANGED <<job, worker, posts>>, NEW m \in net, Start(m)
    PROVE  ServerGood
<1>1. m.id \in Execs
  BY TakenFacts
<1>2. ASSUME Reliable, NEW f \in Execs, f[1] = m.id[1], Alive(stmt[f])
      PROVE  ~ f[2] <= m.id[2]
  <2>1. f \in History(m.id[1]) /\ stmt[f] # "aborted"
    BY <1>2 DEF History, Alive
  <2>2. ~ m.retry
    BY <1>2, <2>1 DEF Start, Reliable
  <2>3. m.id[2] = 1 /\ f[2] < m.id[2]
    <3>1. ran[f] # None
      BY <1>2, Ranges DEF Inv, ServerInv, Alive
    <3>2. QED BY <1>2, <2>2, <3>1 DEF Inv, OnceInv
  <2>4. QED BY <1>2, <2>3, Ranges
<1>3. QED BY <1>1, <1>2, TakeServer DEF Start

\* A POST is attached to a statement on record: to the one that counts, if there is one.
LEMMA RecallServer ==
    ASSUME Inv, UNCHANGED <<job, worker, posts>>, NEW m \in net, Recall(m)
    PROVE  ServerGood
<1>1. PICK x \in History(m.id[1]) :
        /\ HistoryRetained =>
             \/ stmt[x] # "aborted"
             \/ \A o \in History(m.id[1]) : stmt[o] = "aborted"
        /\ ran' = [ran EXCEPT ![m.id] = x]
  BY DEF Recall
<1>2. x \in Execs /\ x[1] = m.id[1] /\ stmt[x] # "none"
  BY DEF History
<1>3. ASSUME Reliable, NEW f \in Execs, f[1] = m.id[1], Alive(stmt[f])
      PROVE  x = f
  <2>1. f \in History(m.id[1]) /\ stmt[f] # "aborted"
    BY <1>3 DEF History, Alive
  <2>2. stmt[x] # "aborted"
    BY <1>1, <1>3, <2>1 DEF Reliable
  <2>3. Alive(stmt[x])
    BY <1>2, <2>2 DEF Alive, Inv, TypeOK, ServerTypeOK
  <2>4. QED BY <1>2, <1>3, <2>3, OneAlive DEF Inv
<1>4. QED BY <1>1, <1>2, <1>3, TakeServer DEF Recall

LEMMA ServeServer ==
    ASSUME Inv, ServerNext, UNCHANGED <<job, worker, posts>>
    PROVE  ServerGood
<1>0. stmt \in [Execs -> {"none", "running", "committed", "aborted"}]
  BY DEF Inv, TypeOK, ServerTypeOK
<1>1. ASSUME NEW m \in net, Discard(m) PROVE ServerGood
  BY <1>0, <1>1, EndServer DEF Discard, Alive
<1>2. ASSUME NEW e \in Execs, Finish(e) PROVE ServerGood
  <2>1. PICK s \in {"committed", "aborted"} : stmt' = [stmt EXCEPT ![e] = s]
    BY <1>2 DEF Finish
  <2>2. QED BY <1>0, <1>2, <2>1, EndServer DEF Finish, Alive
<1>3. ASSUME NEW e \in Execs, TakeCancel(e) \/ LoseCancel(e) PROVE ServerGood
  <2>1. stmt' = stmt \/ (stmt[e] = "running" /\ stmt' = [stmt EXCEPT ![e] = "aborted"])
    BY <1>0, <1>3 DEF TakeCancel, LoseCancel
  <2>2. net' = net /\ ran' = ran /\ cancels' \subseteq cancels
    BY <1>3 DEF TakeCancel, LoseCancel
  <2>3. QED BY <1>0, <2>1, <2>2, EndServer DEF Alive
<1>4. QED BY <1>1, <1>2, <1>3, StartServer, RecallServer DEF ServerNext

\* What is true of a handle stays true.
LEMMA OwnKept ==
    ASSUME TypeOK, ServerFrame, NEW r, NEW h \in Handles, Own(r, h)
    PROVE  h # None /\ h[1] = r /\ stmt'[h] # "none"
BY Ranges DEF Own, ServerFrame

LEMMA LastKept ==
    ASSUME ServerFrame, NEW r, NEW h, Last(r, h)
    PROVE  net' = {} /\ posts'[r] > 0 /\ ran'[<<r, posts'[r]>>] = h
BY DEF Last, ServerFrame

LEMMA ServeInv ==
    ASSUME Inv, ServerNext, UNCHANGED <<job, worker, posts>>
    PROVE  Inv'
<1>1. ServerTypeOK' /\ ServerInv' /\ (Reliable => OnceInv') /\ ServerFrame
  BY ServeServer DEF ServerGood
<1>2. job' = job /\ worker' = worker /\ posts' = posts
  OBVIOUS
<1>3. TypeOK'
  BY <1>1, <1>2 DEF Inv, TypeOK
<1>4. IdInv'
  BY <1>2 DEF Inv, IdInv, Solely, Unused
<1>5. worker.known \in Handles /\ worker.handle \in Handles /\ job.handle \in Handles
  BY DEF Inv, TypeOK, Worker, Job
<1>6. LoopInv'
  <2>1. ASSUME worker.stage \in {"loop", "wait"}, worker.known # None
        PROVE  Own(worker.request, worker.known)'
    <3>1. Own(worker.request, worker.known)
      BY <2>1 DEF Inv, LoopInv
    <3>2. QED BY <1>1, <1>2, <1>5, <3>1, OwnKept DEF Inv, Own
  <2>2. QED BY <1>2, <2>1 DEF Inv, LoopInv, Unused
<1>7. HandleInv'
  <2>1. ASSUME worker.stage = "handle" PROVE Own(worker.id, worker.handle)'
    <3>1. Own(worker.id, worker.handle)
      BY <2>1 DEF Inv, HandleInv
    <3>2. QED BY <1>1, <1>2, <1>5, <3>1, OwnKept DEF Inv, Own
  <2>2. ASSUME job.handle # None PROVE Own(job.request, job.handle)'
    <3>1. Own(job.request, job.handle)
      BY <2>2 DEF Inv, HandleInv
    <3>2. QED BY <1>1, <1>2, <1>5, <3>1, OwnKept DEF Inv, Own
  <2>3. QED BY <1>2, <2>1, <2>2 DEF Inv, HandleInv
<1>8. ASSUME job'.outcome = "done"
      PROVE  \E e \in Execs : e[1] = job'.request /\ stmt'[e] = "committed"
  <2>1. \E e \in Execs : e[1] = job.request /\ stmt[e] = "committed"
    BY <1>2, <1>8 DEF Inv
  <2>2. QED BY <1>1, <1>2, <2>1 DEF ServerFrame
<1>9. ASSUME Reliable PROVE LastInv' /\ OutcomeTrue'
  <2>1. LastInv'
    <3>1. LastInv
      BY <1>9 DEF Inv
    <3>2. ASSUME worker.stage = "handle", worker.named PROVE Last(worker.id, worker.handle)'
      BY <1>1, <1>2, <3>1, <3>2, LastKept DEF LastInv, Last
    <3>3. ASSUME job.handle # None, job.named PROVE Last(job.request, job.handle)'
      BY <1>1, <1>2, <3>1, <3>3, LastKept DEF LastInv, Last
    <3>4. QED BY <1>2, <3>2, <3>3 DEF LastInv
  <2>2. ASSUME job.outcome = "failed", job.named PROVE Effective' = {} /\ net' = {}
    <3>1. Effective = {} /\ net = {}
      BY <1>9, <2>2 DEF Inv, OutcomeTrue
    <3>2. net' = {} /\ \A e \in Execs : Alive(stmt'[e]) => Alive(stmt[e])
      BY <1>1, <3>1 DEF ServerFrame
    <3>3. QED BY <3>1, <3>2 DEF Effective, Alive
  <2>3. QED BY <1>2, <1>8, <2>1, <2>2 DEF OutcomeTrue
<1>10. QED BY <1>1, <1>3, <1>4, <1>6, <1>7, <1>8, <1>9 DEF Inv

-----------------------------------------------------------------------------
(* Steps of the worker that leave the service alone.                        *)

\* What such a step must see to.
LEMMA QuietInv ==
    ASSUME Inv, UNCHANGED <<posts, serverVars>>, job' \in Job, worker' \in Worker,
           IdInv', LoopInv', HandleInv',
           job'.outcome = "done" =>
               \E e \in Execs : e[1] = job'.request /\ stmt[e] = "committed",
           Reliable => LastInv' /\ OutcomeTrue'
    PROVE  Inv'
<1>1. TypeOK' /\ ServerInv'
  BY DEF Inv, TypeOK, ServerTypeOK, ServerInv, serverVars
<1>2. ASSUME Reliable PROVE OnceInv'
  BY <1>2 DEF Inv, OnceInv, Effective, serverVars
<1>3. stmt' = stmt
  BY DEF serverVars
<1>4. QED BY <1>1, <1>2, <1>3 DEF Inv

\* One that leaves the store alone, too.
LEMMA WorkerInv ==
    ASSUME Inv, UNCHANGED <<job, posts, serverVars>>, worker' \in Worker,
           IdInv', LoopInv', HandleInv',
           Reliable /\ worker'.stage = "handle" /\ worker'.named
               => Last(worker'.id, worker'.handle)
    PROVE  Inv'
<1>1. job' \in Job /\ stmt' = stmt /\ net' = net /\ ran' = ran /\ posts' = posts
  BY DEF Inv, TypeOK, serverVars
<1>2. job'.outcome = "done" =>
          \E e \in Execs : e[1] = job'.request /\ stmt[e] = "committed"
  BY DEF Inv
<1>3. ASSUME Reliable PROVE LastInv' /\ OutcomeTrue'
  BY <1>1, <1>3 DEF Inv, LastInv, Last, OutcomeTrue, Effective
<1>4. QED BY <1>1, <1>2, <1>3, QuietInv

\* The worker dies.
LEMMA CrashInv == ASSUME Inv, Crash PROVE Inv'
<1>1. /\ worker' = Memory("down", worker.life, NoRequest, None, FALSE)
      /\ UNCHANGED <<job, posts, serverVars>> /\ worker.stage # "down"
  BY DEF Crash
<1>2. worker' \in Worker /\ worker'.stage = "down" /\ worker'.life = worker.life
  <2>1. worker.life \in 0..MaxLives /\ 0 \in 0..Tries
    BY SubmissionsAssumption DEF Inv, TypeOK, Worker
  <2>2. QED BY <1>1, <2>1 DEF Memory, Worker, Ids, Handles
<1>3. IdInv'
  BY <1>1, <1>2 DEF Inv, IdInv, Solely, Unused
<1>4. LoopInv'
  BY <1>2 DEF LoopInv
<1>5. HandleInv'
  BY <1>1, <1>2 DEF Inv, HandleInv, Own, serverVars
<1>6. QED BY <1>1, <1>2, <1>3, <1>4, <1>5, WorkerInv

\* The next worker starts from the store.
LEMMA BootInv == ASSUME Inv, Boot PROVE Inv'
<1> DEFINE stage == IF job.request = NoRequest THEN "new"
                    ELSE IF job.handle = None THEN "raised" ELSE "handle"
<1>1. /\ worker' = Memory(stage, worker.life + 1, job.request, job.handle, job.named)
      /\ UNCHANGED <<job, posts, serverVars>> /\ worker.stage = "down"
      /\ worker.life < MaxLives /\ (worker.life > 0 => job.durable)
  BY DEF Boot
<1>2. /\ job.request \in Ids /\ job.handle \in Handles /\ job.named \in BOOLEAN
      /\ worker.life \in 0..MaxLives /\ 0 \in 0..Tries /\ MaxLives \in Nat
      /\ job.durable \in BOOLEAN
  BY SubmissionsAssumption DEF Inv, TypeOK, Worker, Job
<1>3. /\ worker' \in Worker /\ worker'.stage = stage /\ worker'.id = job.request
      /\ worker'.handle = job.handle /\ worker'.named = job.named
      /\ worker'.life = worker.life + 1 /\ worker'.life # 0
  BY <1>1, <1>2 DEF Memory, Worker, Ids, Handles
<1>4. job.request # NoRequest => job.durable
  BY <1>1, <1>2 DEF Inv, IdInv
<1>5. job.request = NoRequest => Unused
  BY <1>1, <1>2 DEF Inv, IdInv
<1>6. IdInv'
  BY <1>1, <1>3, <1>4, <1>5 DEF Inv, IdInv, Solely, Unused
<1>7. LoopInv'
  BY <1>3 DEF LoopInv
<1>8. HandleInv'
  <2>1. job.handle # None => job.request # NoRequest
    <3>1. ASSUME job.handle # None PROVE job.request \in Requests
      <4>1. Own(job.request, job.handle) /\ job.handle \in Execs
        BY <1>2, <3>1, Ranges DEF Inv, HandleInv
      <4>2. QED BY <4>1, Ranges DEF Own
    <3>2. QED BY <3>1, Ranges
  <2>2. QED BY <1>1, <1>3, <2>1 DEF Inv, HandleInv, Own, serverVars
<1>9. ASSUME Reliable, worker'.stage = "handle", worker'.named
      PROVE  Last(worker'.id, worker'.handle)
  BY <1>3, <1>9 DEF Inv, LastInv
<1>10. QED BY <1>1, <1>3, <1>6, <1>7, <1>8, <1>9, WorkerInv

\* persist_job commits an id that no POST carries.
LEMMA PersistJobInv == ASSUME Inv, PersistJob PROVE Inv'
<1>1. PICK r \in Requests : /\ job' = [job EXCEPT !.request = r]
                            /\ worker' = [worker EXCEPT !.id = r]
  BY DEF PersistJob
<1>2. /\ worker.stage = "new" /\ job.request = NoRequest /\ Unused
      /\ UNCHANGED <<posts, serverVars>> /\ job.handle = None /\ job.outcome = "open"
  BY DEF PersistJob, Inv, IdInv, HandleInv
<1>3. /\ job \in Job /\ worker \in Worker /\ r \in Ids
  BY DEF Inv, TypeOK, Ids
<1>4. /\ job' \in Job /\ worker' \in Worker
      /\ worker'.stage = "new" /\ worker'.id = r /\ worker'.life = worker.life
      /\ job'.request = r /\ job'.handle = None /\ job'.outcome = "open"
      /\ job'.durable = job.durable
  BY <1>1, <1>2, <1>3 DEF Job, Worker
<1>5. Unused'
  BY <1>2 DEF Unused
<1>6. IdInv'
  <2>1. \A o \in Requests : Solely(o)'
    BY <1>5 DEF Unused, Solely
  <2>2. QED BY <1>2, <1>4, <1>5, <2>1 DEF Inv, IdInv
<1>7. LoopInv' /\ HandleInv'
  BY <1>4 DEF LoopInv, HandleInv
<1>8. LastInv' /\ OutcomeTrue'
  BY <1>4 DEF LastInv, OutcomeTrue
<1>9. QED BY <1>2, <1>4, <1>6, <1>7, <1>8, QuietInv

\* persist_handle stores a handle of the job's id.
LEMMA PersistHandleInv == ASSUME Inv, PersistHandle PROVE Inv'
<1>1. /\ worker.stage = "handle" /\ job.handle = None /\ worker' = worker
      /\ job' = [job EXCEPT !.handle = worker.handle, !.named = worker.named,
                            !.request = worker.id]
      /\ UNCHANGED <<posts, serverVars>>
  BY DEF PersistHandle
<1>2. job \in Job /\ worker \in Worker
  BY DEF Inv, TypeOK
<1>3. /\ job' \in Job /\ job'.handle = worker.handle /\ job'.named = worker.named
      /\ job'.request = worker.id /\ job'.durable = job.durable
      /\ job'.outcome = job.outcome /\ job.outcome = "open"
  BY <1>1, <1>2 DEF Job, Worker, Inv, HandleInv
<1>4. worker.id # NoRequest /\ Own(worker.id, worker.handle) /\ Solely(worker.id)
  BY <1>1 DEF Inv, HandleInv, IdInv
<1>5. IdInv'
  BY <1>1, <1>3, <1>4 DEF Inv, IdInv, Solely, Unused
<1>6. LoopInv' /\ HandleInv'
  BY <1>1, <1>3, <1>4 DEF Inv, LoopInv, HandleInv, Own, Unused, serverVars
<1>7. ASSUME Reliable PROVE LastInv' /\ OutcomeTrue'
  BY <1>1, <1>3, <1>7 DEF Inv, LastInv, Last, OutcomeTrue, serverVars
<1>8. QED BY <1>1, <1>2, <1>3, <1>5, <1>6, <1>7, QuietInv

-----------------------------------------------------------------------------
(* The calls.                                                               *)

\* submit() enters the loop under an id that has no POST yet.
LEMMA SubmitInv == ASSUME Inv, submit PROVE Inv'
<1>1. PICK r \in Requests : SubmissionId(worker.id, FALSE, r) /\ Enter(FALSE, r)
  BY DEF submit
<1>2. /\ worker.stage = "new" /\ (job.durable => worker.id # NoRequest) /\ Unused
      /\ UNCHANGED <<job, posts, serverVars>>
  BY DEF submit, Inv, IdInv
<1>3. worker \in Worker /\ worker.life # 0 /\ r \in Ids /\ 0 \in 0..Tries
  BY <1>2, SubmissionsAssumption DEF Inv, TypeOK, IdInv, Ids
<1>4. /\ worker' \in Worker /\ worker'.stage = "loop" /\ worker'.request = r
      /\ worker'.known = None /\ worker'.id = worker.id /\ worker'.life = worker.life
  BY <1>1, <1>3 DEF Enter, Worker, Handles
<1>5. worker.id \in {NoRequest, r}
  BY <1>1 DEF SubmissionId
<1>6. IdInv'
  BY <1>2, <1>3, <1>4, <1>5 DEF Inv, IdInv, Solely, Unused
<1>7. LoopInv'
  BY <1>2, <1>4 DEF LoopInv, Unused
<1>8. HandleInv'
  BY <1>2, <1>4 DEF Inv, HandleInv
<1>9. QED BY <1>2, <1>4, <1>6, <1>7, <1>8, WorkerInv

\* resubmit() enters it under the id it is given, and marks every POST.
LEMMA ResubmitInv == ASSUME Inv, resubmit PROVE Inv'
<1>1. PICK r \in Requests : SubmissionId(worker.id, TRUE, r) /\ Enter(TRUE, r)
  BY DEF resubmit
<1>2. worker.stage \in {"raised", "lost"} /\ UNCHANGED <<job, posts, serverVars>>
  BY DEF resubmit
<1>3. worker.id = r /\ r # NoRequest /\ Solely(r)
  BY <1>1, <1>2, Ranges DEF SubmissionId, Inv, IdInv
<1>4. worker \in Worker /\ worker.life # 0 /\ r \in Ids /\ 0 \in 0..Tries
  BY <1>2, SubmissionsAssumption DEF Inv, TypeOK, IdInv, Ids
<1>5. /\ worker' \in Worker /\ worker'.stage = "loop" /\ worker'.request = r
      /\ worker'.known = None /\ worker'.id = worker.id /\ worker'.life = worker.life
      /\ worker'.retry = TRUE
  BY <1>1, <1>4 DEF Enter, Worker, Handles
<1>6. IdInv'
  BY <1>2, <1>3, <1>4, <1>5 DEF Inv, IdInv, Solely, Unused
<1>7. LoopInv'
  BY <1>5 DEF LoopInv
<1>8. HandleInv'
  BY <1>2, <1>5 DEF Inv, HandleInv
<1>9. QED BY <1>2, <1>5, <1>6, <1>7, <1>8, WorkerInv

\* An exception leaves the call, with the id on it or without.
LEMMA RaisedInv ==
    ASSUME Inv, worker.stage \in {"loop", "wait"}, UNCHANGED <<job, posts, serverVars>>,
           \/ worker' = [worker EXCEPT !.stage = "lost"]
           \/ Identified
    PROVE  Inv'
<1>1. /\ worker \in Worker /\ worker.request \in Requests /\ worker.request \in Ids
      /\ worker.life # 0
  BY DEF Inv, TypeOK, IdInv, Ids
<1>2. /\ worker' \in Worker /\ worker'.life = worker.life
      /\ \/ worker'.stage = "lost" /\ worker'.id = worker.id
         \/ worker'.stage = "raised" /\ worker'.id = worker.request
  BY <1>1 DEF Identified, Worker
<1>3. IdInv'
  <2>1. /\ Solely(worker.request) /\ worker.id \in {NoRequest, worker.request}
        /\ worker.request # NoRequest
    BY <1>1, Ranges DEF Inv, IdInv
  <2>2. worker'.id # NoRequest => worker'.id = worker.request
    BY <1>2, <2>1
  <2>3. job.durable => worker'.id = job.request
    BY <1>2, <2>1 DEF Inv, IdInv
  <2>4. QED BY <1>1, <1>2, <2>1, <2>2, <2>3 DEF Inv, IdInv, Solely, Unused
<1>4. LoopInv'
  BY <1>2 DEF LoopInv
<1>5. HandleInv'
  BY <1>2 DEF Inv, HandleInv
<1>6. QED BY <1>2, <1>3, <1>4, <1>5, WorkerInv

\* The loop goes round: a POST without an answer, or with one that asks for a retry.
LEMMA AroundInv ==
    ASSUME Inv, worker.stage = "wait", UNCHANGED <<job, posts, serverVars>>,
           NEW h \in Handles, h # None => Own(worker.request, h),
           worker' = [worker EXCEPT !.stage = "loop", !.turn = @ + 1, !.known = h]
    PROVE  Inv'
<1>1. worker \in Worker /\ worker.turn < Tries /\ worker.life # 0
  BY DEF Inv, TypeOK, LoopInv, IdInv
<1>2. worker.turn \in Nat /\ worker.turn + 1 \in 0..Tries /\ worker.turn + 1 # 0
  BY <1>1, SubmissionsAssumption DEF Worker
<1>3. /\ worker' \in Worker /\ worker'.stage = "loop" /\ worker'.turn # 0
      /\ worker'.life = worker.life /\ worker'.id = worker.id
      /\ worker'.request = worker.request /\ worker'.known = h
  BY <1>1, <1>2 DEF Worker
<1>4. IdInv'
  BY <1>1, <1>3 DEF Inv, IdInv, Solely, Unused
<1>5. LoopInv'
  BY <1>3 DEF LoopInv, Own, serverVars
<1>6. HandleInv'
  BY <1>3 DEF Inv, HandleInv
<1>7. QED BY <1>3, <1>4, <1>5, <1>6, WorkerInv

\* A handle in a reply is the job's own, and the handle of the last POST.
LEMMA ReplyHandle ==
    ASSUME Inv, worker.stage = "wait", NEW s \in Statuses, NEW h \in Handles,
           MayAnswerPost(PostId, s, h), h # None
    PROVE  Own(worker.request, h) /\ (Reliable => Last(worker.request, h))
<1> DEFINE r == worker.request
<1>1. /\ r \in Requests /\ Solely(r) /\ posts[r] > 0
      /\ posts \in [Requests -> 0..MaxAttempts] /\ ran \in [Execs -> Handles]
      /\ net \subseteq [id : Execs, retry : BOOLEAN]
  BY DEF Inv, IdInv, LoopInv, TypeOK, ServerTypeOK
<1>2. posts[r] \in Nat /\ PostId \in Execs /\ PostId = <<r, posts[r]>>
  BY <1>1, SqlApiAssumption DEF PostId, Execs
<1>3. ran[PostId] = h
  BY DEF MayAnswerPost
<1>4. h[1] = r /\ stmt[h] # "none"
  BY <1>2, <1>3 DEF Inv, ServerInv
<1>5. ASSUME Reliable, NEW m \in net PROVE FALSE
  <2>1. m.id \in Execs /\ m.id[2] <= posts[m.id[1]] /\ posts[m.id[1]] \in Nat
    BY <1>1, Ranges DEF Inv, ServerInv
  <2>2. m.id[1] = r
    BY <1>1, <2>1, Ranges DEF Solely
  <2>3. PostId[2] < m.id[2]
    BY <1>2, <1>3, <1>5, <2>2 DEF Inv, OnceInv
  <2>4. QED BY <1>2, <2>1, <2>2, <2>3, Ranges
<1>6. QED BY <1>1, <1>2, <1>3, <1>4, <1>5 DEF Own, Last

LEMMA NoReplyInv == ASSUME Inv, NoReply PROVE Inv'
<1>1. /\ worker.stage = "wait" /\ UNCHANGED <<job, posts, serverVars>>
      /\ worker' = [worker EXCEPT !.stage = "loop", !.turn = @ + 1]
      /\ worker \in Worker
  BY DEF NoReply, Inv, TypeOK
<1>2. worker' = [worker EXCEPT !.stage = "loop", !.turn = @ + 1, !.known = worker.known]
  BY <1>1 DEF Worker
<1>3. worker.known \in Handles /\ (worker.known # None => Own(worker.request, worker.known))
  BY <1>1 DEF Inv, LoopInv, Worker
<1>4. QED BY <1>1, <1>2, <1>3, AroundInv

LEMMA RetryReplyInv ==
    ASSUME Inv, NEW h \in Handles, RetryReply(h)
    PROVE  Inv'
<1> DEFINE k == IF h # None THEN h ELSE worker.known
<1>1. /\ worker.stage = "wait" /\ UNCHANGED <<job, posts, serverVars>>
      /\ MayAnswerPost(PostId, "transient", h) /\ worker \in Worker
      /\ worker' = [worker EXCEPT !.stage = "loop", !.turn = @ + 1,
                                  !.known = IF h # None THEN h ELSE @]
  BY DEF RetryReply, Inv, TypeOK
<1>2. worker' = [worker EXCEPT !.stage = "loop", !.turn = @ + 1, !.known = k]
  BY <1>1 DEF Worker
<1>3. k \in Handles /\ (k # None => Own(worker.request, k))
  <2>1. CASE h # None
    BY <1>1, <2>1, ReplyHandle DEF Statuses
  <2>2. CASE h = None
    BY <1>1, <2>2 DEF Inv, LoopInv, Worker
  <2>3. QED BY <2>1, <2>2
<1> HIDE DEF k
<1>4. QED BY <1>1, <1>2, <1>3, AroundInv

\* A QueryHandle is returned, or the call raises.
LEMMA FinalReplyInv ==
    ASSUME Inv, NEW s \in Statuses, NEW h \in Handles, FinalReply(s, h)
    PROVE  Inv'
<1> DEFINE k == IF h # None THEN h ELSE worker.known
<1>1. /\ worker.stage = "wait" /\ UNCHANGED <<job, posts, serverVars>>
      /\ MayAnswerPost(PostId, s, h) /\ worker \in Worker
  BY DEF FinalReply, Inv, TypeOK
<1>2. CASE Identified
  BY <1>1, <1>2, RaisedInv
<1>3. CASE /\ k # None
           /\ worker' = [worker EXCEPT !.stage = "handle", !.handle = k,
                                       !.named = h # None, !.id = worker.request]
  <2>1. k \in Handles /\ Own(worker.request, k)
    <3>1. CASE h # None
      BY <1>1, <3>1, ReplyHandle
    <3>2. CASE h = None
      BY <1>1, <1>3, <3>2 DEF Inv, LoopInv, Worker
    <3>3. QED BY <3>1, <3>2
  <2>2. /\ worker.request \in Requests /\ worker.request \in Ids /\ worker.life # 0
        /\ worker.request # NoRequest /\ Solely(worker.request)
        /\ worker.id \in {NoRequest, worker.request}
    BY <1>1, Ranges DEF Inv, IdInv, Ids
  <2>3. /\ worker' \in Worker /\ worker'.stage = "handle" /\ worker'.life = worker.life
        /\ worker'.id = worker.request /\ worker'.handle = k
        /\ worker'.named => h # None /\ k = h
    BY <1>1, <1>3, <2>1, <2>2 DEF Worker
  <2> HIDE DEF k
  <2>4. IdInv'
    <3>1. job.durable => worker.request = job.request
      BY <1>1, <2>2 DEF Inv, IdInv
    <3>2. QED BY <1>1, <2>2, <2>3, <3>1 DEF Inv, IdInv, Solely, Unused
  <2>5. LoopInv'
    BY <2>3 DEF LoopInv
  <2>6. HandleInv'
    BY <1>1, <2>1, <2>2, <2>3 DEF Inv, HandleInv, Own, serverVars
  <2>7. ASSUME Reliable, worker'.named PROVE Last(worker'.id, worker'.handle)
    BY <1>1, <2>3, <2>7, ReplyHandle
  <2>8. QED BY <1>1, <2>3, <2>4, <2>5, <2>6, <2>7, WorkerInv
<1>4. QED BY <1>2, <1>3 DEF FinalReply

\* result() tells the truth, and of a handle that the final reply named the whole truth.
LEMMA ResultInv ==
    ASSUME Inv, NEW s \in Statuses, result(s)
    PROVE  Inv'
<1> DEFINE e == job.handle
<1>1. /\ worker.stage = "handle" /\ e # None /\ job.outcome = "open"
      /\ MayAnswerGet(e, s, None) /\ s \in {"ok", "sql_error"}
      /\ job' = [job EXCEPT !.outcome = IF s = "ok" THEN "done" ELSE "failed"]
      /\ UNCHANGED <<worker, posts, serverVars>> /\ job \in Job /\ worker \in Worker
  BY DEF result, Inv, TypeOK
<1>2. /\ job' \in Job /\ job'.outcome = (IF s = "ok" THEN "done" ELSE "failed")
      /\ job'.handle = e /\ job'.request = job.request /\ job'.named = job.named
      /\ job'.durable = job.durable
  BY <1>1 DEF Job
<1>3. e \in Execs /\ e[1] = job.request /\ stmt[e] # "none"
  BY <1>1, Ranges DEF Inv, HandleInv, Own, Job
<1>4. IdInv' /\ LoopInv'
  BY <1>1, <1>2 DEF Inv, IdInv, LoopInv, Solely, Unused, Own, serverVars
<1>5. HandleInv'
  BY <1>1, <1>2 DEF Inv, HandleInv, Own, serverVars
<1>6. ASSUME job'.outcome = "done"
      PROVE  \E x \in Execs : x[1] = job'.request /\ stmt[x] = "committed"
  BY <1>1, <1>2, <1>3, <1>6 DEF MayAnswerGet
<1>7. ASSUME Reliable PROVE LastInv' /\ OutcomeTrue'
  <2>1. LastInv'
    BY <1>1, <1>2, <1>7 DEF Inv, LastInv, Last, serverVars
  <2>2. ASSUME job'.outcome = "failed", job.named PROVE Effective = {} /\ net = {}
    <3>1. stmt[e] = "aborted"
      BY <1>1, <1>2, <2>2 DEF MayAnswerGet
    <3> DEFINE r == job.request
               l == <<r, posts[r]>>
    <3>2. net = {} /\ posts[r] > 0 /\ ran[l] = e
      BY <1>1, <1>7, <2>2 DEF Inv, LastInv, Last
    <3>3. ASSUME NEW f \in Effective PROVE FALSE
      <4>1. /\ f \in Execs /\ Alive(stmt[f]) /\ ran[f] = f /\ f # None
            /\ f[2] <= posts[f[1]] /\ f[1] \in Requests /\ f[2] \in Nat /\ f[2] >= 1
        BY Ranges DEF Effective, Alive, Inv, ServerInv
      <4>2. /\ r \in Requests /\ posts \in [Requests -> 0..MaxAttempts]
        BY <1>3, Ranges DEF Inv, TypeOK
      <4>3. f[1] = r
        <5>1. posts[f[1]] > 0 /\ posts[r] > 0
          BY <3>2, <4>1, <4>2
        <5>2. QED BY <4>1, <4>2, <5>1 DEF Inv, IdInv, Solely
      <4>4. l \in Execs /\ l[1] = f[1] /\ f[2] <= l[2]
        BY <3>2, <4>1, <4>2, <4>3, SqlApiAssumption DEF Execs
      <4>5. ran[l] = f
        BY <1>3, <1>7, <3>2, <4>1, <4>4, Ranges DEF Inv, OnceInv
      <4>6. QED BY <3>1, <3>2, <4>1, <4>5 DEF Alive
    <3>4. QED BY <3>2, <3>3
  <2>3. OutcomeTrue'
    BY <1>1, <1>2, <1>6, <2>2 DEF OutcomeTrue, Effective, serverVars
  <2>4. QED BY <2>1, <2>3
<1>8. QED BY <1>1, <1>2, <1>4, <1>5, <1>6, <1>7, QuietInv

\* cancel() puts a request under way and changes nothing else.
LEMMA CancelInv == ASSUME Inv, cancel PROVE Inv'
<1>1. /\ worker.stage = "handle" /\ cancels' = cancels \cup {worker.handle}
      /\ UNCHANGED <<job, worker, posts, net, ran, stmt>>
  BY DEF cancel
<1>2. worker.handle \in Execs
  BY <1>1, Ranges DEF Inv, TypeOK, Worker, HandleInv, Own
<1>3. TypeOK'
  BY <1>1, <1>2 DEF Inv, TypeOK, ServerTypeOK
<1>4. /\ ServerInv' /\ IdInv' /\ LoopInv' /\ HandleInv'
  BY <1>1 DEF Inv, ServerInv, IdInv, LoopInv, HandleInv, Solely, Unused, Own
<1>5. ASSUME Reliable PROVE OnceInv' /\ LastInv' /\ OutcomeTrue'
  BY <1>1, <1>5 DEF Inv, OnceInv, LastInv, Last, OutcomeTrue, Effective
<1>6. QED BY <1>1, <1>3, <1>4, <1>5 DEF Inv

\* A POST goes out, numbered after all others, and unmarked only if there are none.
LEMMA AttemptInv == ASSUME Inv, Attempt PROVE Inv'
<1> DEFINE r == worker.request
           m == Post(<<r, posts[r] + 1>>, Flag)
<1>1. /\ worker.stage = "loop" /\ worker.turn < Tries /\ posts[r] < MaxAttempts
      /\ posts' = [posts EXCEPT ![r] = @ + 1]
      /\ net' = net \cup {Post(<<r, posts'[r]>>, Flag)}
      /\ worker' = [worker EXCEPT !.stage = "wait", !.retry = Flag]
      /\ job' = job /\ ran' = ran /\ stmt' = stmt /\ cancels' = cancels
  BY DEF Attempt
<1>2. /\ worker \in Worker /\ r \in Requests /\ Solely(r)
      /\ posts \in [Requests -> 0..MaxAttempts] /\ posts[r] \in Nat
      /\ worker.id \in {NoRequest, r} /\ worker.life # 0
      /\ worker.turn \in Nat /\ worker.retry \in BOOLEAN
      /\ net \subseteq [id : Execs, retry : BOOLEAN]
  BY <1>1, SqlApiAssumption, SubmissionsAssumption
     DEF Inv, IdInv, TypeOK, ServerTypeOK, Worker
<1>3. /\ posts'[r] = posts[r] + 1 /\ posts' \in [Requests -> 0..MaxAttempts]
      /\ \A o \in Requests : o # r => posts'[o] = posts[o]
      /\ \A o \in Requests : posts[o] <= posts'[o]
  BY <1>1, <1>2, SqlApiAssumption
<1>4. /\ net' = net \cup {m} /\ m.id = <<r, posts[r] + 1>> /\ m.retry = Flag
      /\ m.id \in Execs /\ m \in [id : Execs, retry : BOOLEAN]
      /\ m.id[1] = r /\ m.id[2] = posts[r] + 1
  <2>1. posts[r] + 1 \in 1..MaxAttempts
    BY <1>1, <1>2, SqlApiAssumption
  <2>2. Flag \in BOOLEAN
    BY DEF Flag
  <2>3. <<r, posts[r] + 1>> \in Execs
    BY <1>2, <2>1 DEF Execs
  <2>4. QED BY <1>1, <1>3, <2>2, <2>3 DEF Post
<1> HIDE DEF m
<1>5. /\ worker' \in Worker /\ worker'.stage = "wait" /\ worker'.request = r
      /\ worker'.life = worker.life /\ worker'.id = worker.id
      /\ worker'.turn = worker.turn /\ worker'.known = worker.known
  BY <1>1, <1>2 DEF Worker, Flag
<1>6. TypeOK'
  BY <1>1, <1>3, <1>4, <1>5 DEF Inv, TypeOK, ServerTypeOK
\* Nothing is known of the new POST.
<1>7. /\ ran[m.id] = None
      /\ \A o \in net : o.id # m.id
  <2>1. \A e \in Execs : e[1] = r => (ran[e] # None => e[2] <= posts[r])
    BY DEF Inv, ServerInv
  <2>2. \A o \in net : o.id[1] = r => o.id[2] <= posts[r]
    BY DEF Inv, ServerInv
  <2>3. QED BY <1>2, <1>4, <2>1, <2>2
<1>8. ServerInv'
  <2>1. \A e \in Execs : stmt'[e] # "none" => ran'[e] = e
    BY <1>1 DEF Inv, ServerInv
  <2>2. ASSUME NEW e \in Execs, ran[e] # None
        PROVE  e[2] <= posts'[e[1]] /\ ran[e][1] = e[1] /\ stmt[ran[e]] # "none"
    <3>1. e[2] <= posts[e[1]] /\ ran[e][1] = e[1] /\ stmt[ran[e]] # "none"
      BY <2>2 DEF Inv, ServerInv
    <3>2. e[2] \in Nat /\ e[1] \in Requests /\ posts[e[1]] \in Nat /\ posts'[e[1]] \in Nat
      BY <1>2, <1>3, Ranges
    <3>3. QED BY <1>3, <3>1, <3>2
  <2>3. ASSUME NEW o \in net'
        PROVE  o.id[2] <= posts'[o.id[1]] /\ ran[o.id] = None
    <3>1. CASE o = m
      BY <1>2, <1>3, <1>4, <1>7, <3>1
    <3>2. CASE o \in net
      <4>1. o.id[2] <= posts[o.id[1]] /\ ran[o.id] = None /\ o.id \in Execs
        BY <1>2, <3>2 DEF Inv, ServerInv
      <4>2. /\ o.id[2] \in Nat /\ o.id[1] \in Requests
            /\ posts[o.id[1]] \in Nat /\ posts'[o.id[1]] \in Nat
        BY <1>2, <1>3, <4>1, Ranges
      <4>3. QED BY <1>3, <4>1, <4>2
    <3>3. QED BY <1>4, <3>1, <3>2
  <2>4. \A o, q \in net' : o.id = q.id => o = q
    BY <1>4, <1>7 DEF Inv, ServerInv
  <2>5. QED BY <1>1, <2>1, <2>2, <2>3, <2>4 DEF ServerInv
<1>9. IdInv'
  <2>1. \A o \in Requests : posts'[o] > 0 => o = r
    BY <1>2, <1>3 DEF Solely
  <2>2. job.durable => job.request = r
    BY <1>1, <1>2 DEF Inv, IdInv
  <2>3. r # NoRequest
    BY <1>2, Ranges
  <2>4. Solely(worker.request)'
    BY <1>5, <2>1 DEF Solely
  <2>5. \E o \in Requests : Solely(o)'
    BY <1>2, <2>1 DEF Solely
  <2>6. worker'.life # 0 /\ worker'.stage = "wait" /\ worker'.request = r
        /\ worker'.id \in {NoRequest, r}
    BY <1>2, <1>5
  <2>7. job.durable => worker'.id = job.request
    BY <1>1, <1>5 DEF Inv, IdInv
  <2>8. job'.durable => job'.request = r /\ r # NoRequest /\ worker'.id = job'.request
    BY <1>1, <2>2, <2>3, <2>7
  <2>9. QED BY <1>2, <2>4, <2>5, <2>6, <2>8 DEF IdInv
<1>10. LoopInv'
  <2>1. posts'[r] > 0
    BY <1>2, <1>3
  <2>2. worker.known # None => Own(r, worker.known)
    BY <1>1 DEF Inv, LoopInv
  <2>3. QED BY <1>1, <1>5, <2>1, <2>2 DEF LoopInv, Own
<1>11. HandleInv'
  BY <1>1, <1>5 DEF Inv, HandleInv
<1>12. ASSUME Reliable PROVE OnceInv' /\ LastInv' /\ OutcomeTrue'
  <2>1. ASSUME ~ m.retry PROVE m.id[2] = 1
    <3>1. ~ worker.retry /\ worker.turn = 0
      BY <1>2, <1>4, <2>1 DEF Flag
    <3>2. posts[r] = 0
      BY <1>1, <1>2, <3>1 DEF Inv, LoopInv, Unused
    <3>3. QED BY <1>4, <3>2
  <2>2. ASSUME NEW e \in Execs, m.id[1] = e[1], ran[e] # None
        PROVE  e[2] < m.id[2]
    <3>1. e[2] <= posts[r] /\ e[2] \in Nat
      BY <1>4, <2>2, Ranges DEF Inv, ServerInv
    <3>2. QED BY <1>2, <1>4, <3>1
  <2>3. OnceInv'
    BY <1>1, <1>4, <1>12, <2>1, <2>2 DEF Inv, OnceInv, Effective
  <2>4. LastInv' /\ OutcomeTrue'
    BY <1>1, <1>5 DEF Inv, HandleInv, LastInv, OutcomeTrue
  <2>5. QED BY <2>3, <2>4
<1>13. QED BY <1>1, <1>6, <1>8, <1>9, <1>10, <1>11, <1>12 DEF Inv

-----------------------------------------------------------------------------
(* The theorems.                                                            *)

LEMMA InvInit == Init => Inv
<1> SUFFICES ASSUME Init PROVE Inv
  OBVIOUS
<1>1. /\ job \in Job /\ job.request = NoRequest /\ job.handle = None
      /\ ~ job.named /\ job.outcome = "open"
      /\ worker = Memory("down", 0, NoRequest, None, FALSE)
      /\ posts = [r \in Requests |-> 0] /\ ServerInit
  BY DEF Init
<1>2. worker \in Worker /\ worker.stage = "down" /\ worker.life = 0
  <2>1. 0 \in 0..MaxLives /\ 0 \in 0..Tries
    BY SubmissionsAssumption
  <2>2. QED BY <1>1, <2>1 DEF Memory, Worker, Ids, Handles
<1>3. posts \in [Requests -> 0..MaxAttempts] /\ Unused
  BY <1>1, SqlApiAssumption DEF Unused
<1>4. TypeOK
  BY <1>1, <1>2, <1>3 DEF TypeOK, ServerTypeOK, ServerInit, Handles
<1>5. net = {} /\ \A e \in Execs : stmt[e] = "none" /\ ran[e] = None
  BY <1>1 DEF ServerInit
<1>6. ServerInv /\ OnceInv
  BY <1>5 DEF ServerInv, OnceInv, Effective
<1>7. IdInv
  <2>1. 0 \in Requests
    BY SqlApiAssumption DEF Requests
  <2>2. \A o \in Requests : Solely(o)
    BY <1>3 DEF Solely, Unused
  <2>3. \E o \in Requests : Solely(o)
    BY <2>1, <2>2
  <2>4. QED BY <1>1, <1>2, <1>3, <2>3 DEF IdInv
<1>8. LoopInv /\ HandleInv /\ LastInv /\ OutcomeTrue
  BY <1>1, <1>2 DEF LoopInv, HandleInv, LastInv, OutcomeTrue
<1>9. QED BY <1>1, <1>4, <1>6, <1>7, <1>8 DEF Inv

LEMMA InvStep == Inv /\ [Next]_vars => Inv'
<1> SUFFICES ASSUME Inv, [Next]_vars PROVE Inv'
  OBVIOUS
<1>1. CASE Boot
  BY <1>1, BootInv
<1>2. CASE Crash
  BY <1>2, CrashInv
<1>3. CASE PersistJob
  BY <1>3, PersistJobInv
<1>4. CASE PersistHandle
  BY <1>4, PersistHandleInv
<1>5. CASE ClientNext
  <2>1. CASE submit \/ resubmit \/ Attempt \/ NoReply \/ cancel
    BY <2>1, SubmitInv, ResubmitInv, AttemptInv, NoReplyInv, CancelInv
  <2>2. CASE Unidentified \/ FailsUnsent
    BY <2>2, RaisedInv DEF Unidentified, FailsUnsent
  <2>3. ASSUME NEW h \in Handles, RetryReply(h) PROVE Inv'
    BY <2>3, RetryReplyInv
  <2>4. ASSUME NEW s \in Statuses, NEW h \in Handles, FinalReply(s, h) PROVE Inv'
    BY <2>4, FinalReplyInv
  <2>5. ASSUME NEW s \in Statuses, result(s) PROVE Inv'
    BY <2>5, ResultInv
  <2>6. QED BY <1>5, <2>1, <2>2, <2>3, <2>4, <2>5 DEF ClientNext
<1>6. CASE ServerNext /\ UNCHANGED <<job, worker, posts>>
  BY <1>6, ServeInv
<1>7. CASE UNCHANGED vars
  <2>1. /\ job' = job /\ worker' = worker /\ posts' = posts
        /\ net' = net /\ ran' = ran /\ stmt' = stmt /\ cancels' = cancels
    BY <1>7 DEF vars, serverVars
  <2>2. TypeOK' /\ ServerInv' /\ IdInv' /\ LoopInv' /\ HandleInv'
    BY <2>1 DEF Inv, TypeOK, ServerTypeOK, ServerInv, IdInv, LoopInv, HandleInv, Solely,
       Unused, Own
  <2>3. ASSUME Reliable PROVE OnceInv' /\ LastInv' /\ OutcomeTrue'
    BY <2>1, <2>3 DEF Inv, OnceInv, LastInv, Last, OutcomeTrue, Effective
  <2>4. QED BY <2>1, <2>2, <2>3 DEF Inv
<1>8. QED BY <1>1, <1>2, <1>3, <1>4, <1>5, <1>6, <1>7 DEF Next

\* Whatever the number of lives, tries and ids: the inductive invariant of submit() and
\* resubmit().
THEOREM Invariance == Spec => []Inv
<1>1. QED BY InvInit, InvStep, PTL DEF Spec

\* Type correctness of the submissions, the service and its ids is part of it.
THEOREM TypeCorrect == Spec => []TypeOK
<1>1. Inv => TypeOK
  BY DEF Inv
<1>2. QED BY <1>1, Invariance, PTL

\* However often workers die and calls fail, the statement runs or has succeeded once at
\* most, where the service keeps its history and takes an id's POSTs in order.
THEOREM StatementRunsOnce ==
    ASSUME HistoryRetained, InOrder
    PROVE  Spec => []AtMostOnce
<1>1. ASSUME Inv PROVE AtMostOnce
  <2>1. ServerInv /\ OnceInv /\ \E r \in Requests : Solely(r)
    BY <1>1 DEF Inv, Reliable, IdInv
  <2>2. ASSUME NEW e \in Effective, NEW f \in Effective PROVE e = f
    <3>1. e \in Execs /\ f \in Execs /\ Alive(stmt[e]) /\ Alive(stmt[f])
      BY DEF Effective, Alive
    <3>2. \A x \in Execs : Alive(stmt[x]) => posts[x[1]] > 0
      <4>1. TAKE x \in Execs
      <4>2. HAVE Alive(stmt[x])
      <4>3. ran[x] = x /\ x # None
        BY <2>1, <4>1, <4>2, Ranges DEF ServerInv, Alive
      <4>4. x[2] <= posts[x[1]] /\ x[2] \in Nat /\ x[2] >= 1
        BY <2>1, <4>1, <4>3, Ranges DEF ServerInv
      <4>5. posts[x[1]] \in 0..MaxAttempts
        BY <1>1, <4>1, Ranges DEF Inv, TypeOK
      <4>6. QED BY <4>4, <4>5, SqlApiAssumption
    <3>3. e[1] = f[1]
      BY <2>1, <3>1, <3>2, Ranges DEF Solely
    <3>4. QED BY <2>1, <3>1, <3>3, OneAlive
  <2>3. CASE Effective = {}
    BY <2>3, FS_EmptySet DEF AtMostOnce
  <2>4. CASE Effective # {}
    <3>1. PICK e \in Effective : TRUE
      BY <2>4
    <3>2. Effective = {e}
      BY <2>2
    <3>3. Cardinality({e}) = 1
      BY FS_Singleton
    <3>4. QED BY <3>2, <3>3 DEF AtMostOnce
  <2>5. QED BY <2>3, <2>4
<1>2. QED BY <1>1, Invariance, PTL

\* What the application has written down of its job is true and stays so, under the same
\* assumptions.
THEOREM OutcomesTrue ==
    ASSUME HistoryRetained, InOrder
    PROVE  Spec => []OutcomeTrue
<1>1. Inv => OutcomeTrue
  BY DEF Inv, Reliable
<1>2. QED BY <1>1, Invariance, PTL

\* That a job which is done has been executed to its end under the id in the store needs
\* neither assumption.
THEOREM DoneIsCommitted ==
    Spec => [](job.outcome = "done" =>
                  \E e \in Execs : e[1] = job.request /\ stmt[e] = "committed")
<1>1. Inv => (job.outcome = "done" =>
                 \E e \in Execs : e[1] = job.request /\ stmt[e] = "committed")
  BY DEF Inv
<1>2. QED BY <1>1, Invariance, PTL
=============================================================================
