-------------------------- MODULE StatementPollProofs --------------------------
(***************************************************************************)
(* Proofs about the waiting calls of a client, for any number of them,     *)
(* whichever own their statements, and for every interleaving of answers,  *)
(* deadlines, task cancellations and cancel requests.                      *)
(***************************************************************************)
EXTENDS StatementPoll, TLAPS

-----------------------------------------------------------------------------
(* Each step keeps the inductive invariant.                                  *)

(* First the steps that change nothing but a call's own place and flags.     *)

\* The next turn of _poll() keeps the deadline.
LEMMA WakeUpStep == ASSUME Inv, NEW p \in Polls, WakeUp(p) PROVE Inv'
<1>1. /\ poll \in [Polls -> Poll] /\ poll[p] \in Poll
      /\ poll[p].pc = "sleep" /\ poll[p].reply = "none" /\ ~ poll[p].cancelled
  BY DEF Inv, TypeOK, WakeUp, Resumes
<1>2. poll' \in [Polls -> Poll]
  BY <1>1 DEF WakeUp, Goto, Poll
<1>3. /\ poll'[p].pc = "get"
      /\ poll'[p].reply = "none"
      /\ poll'[p].deadline = poll[p].deadline
      /\ poll'[p].cancelled = poll[p].cancelled
      /\ poll'[p].asked = poll[p].asked
      /\ poll'[p].result = poll[p].result
      /\ poll'[p].note = poll[p].note
      /\ \A q \in Polls \ {p} : poll'[q] = poll[q]
  BY <1>1 DEF WakeUp, Goto, Poll
<1>4. UNCHANGED <<clientVars, cancelVars, serviceVars, requested>>
  BY DEF WakeUp
<1>5. TypeOK'
  BY <1>1, <1>2, <1>3, <1>4 DEF clientVars, cancelVars, serviceVars, Inv, TypeOK
<1>6. (closed => \A q \in Polls : Over(q))'
  BY <1>1, <1>3, <1>4 DEF clientVars, Inv, Over
<1>7. ASSUME NEW q \in Polls
      PROVE  PlaceInv(q)' /\ RequestInv(q)' /\ AskedInv(q)'
  BY <1>1, <1>2, <1>3, <1>4
     DEF clientVars, cancelVars, serviceVars, Inv, PlaceInv, RequestInv, AskedInv, Over
<1>8. CancelsOwnStatements' /\ CancellationKept' /\ ResultHonest'
  BY <1>1, <1>2, <1>3, <1>4
     DEF clientVars, serviceVars, Inv, CancelsOwnStatements, CancellationKept,
         ResultHonest, Over
<1>9. QED
  BY <1>5, <1>6, <1>7, <1>8 DEF Inv

\* A task cancellation is on its way until it is delivered.
LEMMA TaskCancelStep == ASSUME Inv, NEW p \in Polls, TaskCancel(p) PROVE Inv'
<1>1. /\ poll \in [Polls -> Poll] /\ poll[p] \in Poll
      /\ poll[p].pc # "over" /\ ~ poll[p].cancelled /\ style = "async"
  BY DEF Inv, TypeOK, TaskCancel
<1>2. poll' \in [Polls -> Poll]
  BY <1>1 DEF TaskCancel, Poll
<1>3. /\ poll'[p].pc = poll[p].pc
      /\ poll'[p].reply = poll[p].reply
      /\ poll'[p].deadline = poll[p].deadline
      /\ poll'[p].cancelled = TRUE
      /\ poll'[p].asked = TRUE
      /\ poll'[p].result = poll[p].result
      /\ poll'[p].note = poll[p].note
      /\ \A q \in Polls \ {p} : poll'[q] = poll[q]
  BY <1>1 DEF TaskCancel, Poll
<1>4. UNCHANGED <<clientVars, cancelVars, serviceVars, requested>>
  BY DEF TaskCancel
<1>5. TypeOK'
  BY <1>1, <1>2, <1>3, <1>4 DEF clientVars, cancelVars, serviceVars, Inv, TypeOK
<1>6. (closed => \A q \in Polls : Over(q))'
  BY <1>1, <1>3, <1>4 DEF clientVars, Inv, Over
<1>7. ASSUME NEW q \in Polls
      PROVE  PlaceInv(q)' /\ RequestInv(q)' /\ AskedInv(q)'
  BY <1>1, <1>2, <1>3, <1>4
     DEF clientVars, cancelVars, serviceVars, Inv, PlaceInv, RequestInv, AskedInv, Over
<1>8. CancelsOwnStatements' /\ CancellationKept' /\ ResultHonest'
  BY <1>1, <1>2, <1>3, <1>4
     DEF clientVars, serviceVars, Inv, CancelsOwnStatements, CancellationKept,
         ResultHonest, Over
<1>9. QED
  BY <1>5, <1>6, <1>7, <1>8 DEF Inv

\* A further cancellation is absorbed by the first, which is still to go on.
LEMMA AbsorbStep == ASSUME Inv, NEW p \in Polls, Absorb(p) PROVE Inv'
<1>1. /\ poll \in [Polls -> Poll] /\ poll[p] \in Poll
      /\ poll[p].pc = "drain"
  BY DEF Inv, TypeOK, Absorb
<1>2. poll' \in [Polls -> Poll]
  BY <1>1 DEF Absorb, Poll
<1>3. /\ poll'[p].pc = poll[p].pc
      /\ poll'[p].reply = poll[p].reply
      /\ poll'[p].deadline = poll[p].deadline
      /\ poll'[p].cancelled = FALSE
      /\ poll'[p].asked = poll[p].asked
      /\ poll'[p].result = poll[p].result
      /\ poll'[p].note = poll[p].note
      /\ \A q \in Polls \ {p} : poll'[q] = poll[q]
  BY <1>1 DEF Absorb, Poll
<1>4. UNCHANGED <<clientVars, cancelVars, serviceVars, requested>>
  BY DEF Absorb
<1>5. TypeOK'
  BY <1>1, <1>2, <1>3, <1>4 DEF clientVars, cancelVars, serviceVars, Inv, TypeOK
<1>6. (closed => \A q \in Polls : Over(q))'
  BY <1>1, <1>3, <1>4 DEF clientVars, Inv, Over
<1>7. ASSUME NEW q \in Polls
      PROVE  PlaceInv(q)' /\ RequestInv(q)' /\ AskedInv(q)'
  BY <1>1, <1>2, <1>3, <1>4
     DEF clientVars, cancelVars, serviceVars, Inv, PlaceInv, RequestInv, AskedInv, Over
<1>8. CancelsOwnStatements' /\ CancellationKept' /\ ResultHonest'
  BY <1>1, <1>2, <1>3, <1>4
     DEF clientVars, serviceVars, Inv, CancelsOwnStatements, CancellationKept,
         ResultHonest, Over
<1>9. QED
  BY <1>5, <1>6, <1>7, <1>8 DEF Inv

-----------------------------------------------------------------------------
(* The steps of a call that receives an answer, and what a timeout or a task *)
(* cancellation makes of it.                                                 *)

\* What leaving does to the call that leaves.
LEMMA Leaves ==
    ASSUME Inv, NEW p \in Polls, NEW res, NEW n, Leave(p, res, n)
    PROVE  /\ poll'[p].pc = "over" /\ poll'[p].reply = "none"
           /\ poll'[p].result = res /\ poll'[p].note = n /\ ~ poll'[p].cancelled
           /\ poll'[p].deadline = poll[p].deadline
           /\ poll'[p].asked = poll[p].asked
           /\ \A q \in Polls \ {p} : poll'[q] = poll[q]
<1>1. poll \in [Polls -> Poll] /\ poll[p] \in Poll
  BY DEF Inv, TypeOK
<1>2. QED
  BY <1>1 DEF Leave, Poll

\* An "ok" is the answer of a finished statement, or of a cancel request that was
\* taken.
LEMMA AnswerStep == ASSUME Inv, NEW p \in Polls, Answer(p) PROVE Inv'
<1>1. TypeOK'
  BY DEF Answer, MayReply,
         Inv, TypeOK, Poll, clientVars, cancelVars, serviceVars
<1>2. (closed => \A q \in Polls : Over(q))'
  BY DEF Answer, MayReply,
         Inv, TypeOK, Poll, Over, clientVars, cancelVars, serviceVars
<1>3. ASSUME NEW q \in Polls
      PROVE  PlaceInv(q)' /\ RequestInv(q)' /\ AskedInv(q)'
  BY DEF Answer, MayReply,
         Inv, TypeOK, Poll, PlaceInv, RequestInv, AskedInv, Over,
         clientVars, cancelVars, serviceVars
<1>4. CancelsOwnStatements' /\ CancellationKept' /\ ResultHonest'
  BY DEF Answer, MayReply,
         Inv, TypeOK, Poll, PlaceInv, RequestInv, AskedInv, Over,
         CancelsOwnStatements, CancellationKept, ResultHonest,
         clientVars, cancelVars, serviceVars
<1>5. QED
  BY <1>1, <1>2, <1>3, <1>4 DEF Inv

\* _poll() begins with a deadline ahead, and owns no cancel request yet.
LEMMA FirstRunningStep == ASSUME Inv, NEW p \in Polls, FirstRunning(p) PROVE Inv'
<1>1. TypeOK'
  BY DEF FirstRunning, Resumes, Leave,
         Inv, TypeOK, Poll, clientVars, cancelVars, serviceVars
<1>2. (closed => \A q \in Polls : Over(q))'
  BY DEF FirstRunning, Resumes, Leave,
         Inv, TypeOK, Poll, Over, clientVars, cancelVars, serviceVars
<1>3. ASSUME NEW q \in Polls
      PROVE  PlaceInv(q)' /\ RequestInv(q)' /\ AskedInv(q)'
  BY DEF FirstRunning, Resumes, Leave,
         Inv, TypeOK, Poll, PlaceInv, RequestInv, AskedInv, Over,
         clientVars, cancelVars, serviceVars
<1>4. CancelsOwnStatements' /\ CancellationKept' /\ ResultHonest'
  BY DEF FirstRunning, Resumes, Leave,
         Inv, TypeOK, Poll, PlaceInv, RequestInv, AskedInv, Over,
         CancelsOwnStatements, CancellationKept, ResultHonest,
         clientVars, cancelVars, serviceVars
<1>5. QED
  BY <1>1, <1>2, <1>3, <1>4 DEF Inv

\* A response is handed on only for an "ok" to a POST or a GET.
LEMMA FinishedStep == ASSUME Inv, NEW p \in Polls, Finished(p) PROVE Inv'
<1>1. TypeOK'
  BY DEF Finished, Resumes, Leave,
         Inv, TypeOK, Poll, clientVars, cancelVars, serviceVars
<1>2. (closed => \A q \in Polls : Over(q))'
  BY DEF Finished, Resumes, Leave,
         Inv, TypeOK, Poll, Over, clientVars, cancelVars, serviceVars
<1>3. ASSUME NEW q \in Polls
      PROVE  PlaceInv(q)' /\ RequestInv(q)' /\ AskedInv(q)'
  BY DEF Finished, Resumes, Leave,
         Inv, TypeOK, Poll, PlaceInv, RequestInv, AskedInv, Over,
         clientVars, cancelVars, serviceVars
<1>4. CancelsOwnStatements' /\ CancellationKept' /\ ResultHonest'
  BY DEF Finished, Resumes, Leave,
         Inv, TypeOK, Poll, PlaceInv, RequestInv, AskedInv, Over,
         CancelsOwnStatements, CancellationKept, ResultHonest,
         clientVars, cancelVars, serviceVars
<1>5. QED
  BY <1>1, <1>2, <1>3, <1>4 DEF Inv

\* An error is neither a timeout nor a cancellation.
LEMMA FailsStep == ASSUME Inv, NEW p \in Polls, Fails(p) PROVE Inv'
<1>1. Leave(p, "error", "none")
  BY DEF Fails
<1>2. /\ poll[p].pc \in {"first", "get"} /\ ~ poll[p].cancelled
      /\ poll \in [Polls -> Poll] /\ poll[p] \in Poll
      /\ UNCHANGED <<clientVars, cancelVars, serviceVars, requested>>
  BY DEF Fails, Resumes, Inv, TypeOK
<1>3. TypeOK'
  BY <1>1, <1>2 DEF Leave, Inv, TypeOK, Poll, clientVars, cancelVars, serviceVars
<1>4. /\ poll'[p].pc = "over" /\ poll'[p].reply = "none"
      /\ poll'[p].result = "error" /\ poll'[p].note = "none"
      /\ ~ poll'[p].cancelled
      /\ poll'[p].deadline = poll[p].deadline
      /\ poll'[p].asked = poll[p].asked
      /\ \A q \in Polls \ {p} : poll'[q] = poll[q]
  BY <1>1, Leaves
<1>5. (closed => \A q \in Polls : Over(q))'
  BY <1>2, <1>4 DEF Inv, Over, clientVars
<1>6. ASSUME NEW q \in Polls
      PROVE  PlaceInv(q)' /\ RequestInv(q)' /\ AskedInv(q)'
  BY <1>2, <1>4
     DEF Inv, Poll, PlaceInv, RequestInv, AskedInv, Over,
         clientVars, cancelVars, serviceVars
<1>7. CancelsOwnStatements' /\ CancellationKept' /\ ResultHonest'
  BY <1>2, <1>4
     DEF Inv, Poll, PlaceInv, RequestInv, AskedInv, Over,
         CancelsOwnStatements, CancellationKept, ResultHonest,
         clientVars, cancelVars, serviceVars
<1>8. QED
  BY <1>3, <1>5, <1>6, <1>7 DEF Inv

\* The sleep and the next turn of _poll() keep the deadline.
LEMMA StillRunningStep == ASSUME Inv, NEW p \in Polls, StillRunning(p) PROVE Inv'
<1>1. TypeOK'
  BY DEF StillRunning, Resumes, Goto,
         Inv, TypeOK, Poll, clientVars, cancelVars, serviceVars
<1>2. (closed => \A q \in Polls : Over(q))'
  BY DEF StillRunning, Resumes, Goto,
         Inv, TypeOK, Poll, Over, clientVars, cancelVars, serviceVars
<1>3. ASSUME NEW q \in Polls
      PROVE  PlaceInv(q)' /\ RequestInv(q)' /\ AskedInv(q)'
  BY DEF StillRunning, Resumes, Goto,
         Inv, TypeOK, Poll, PlaceInv, RequestInv, AskedInv, Over,
         clientVars, cancelVars, serviceVars
<1>4. CancelsOwnStatements' /\ CancellationKept' /\ ResultHonest'
  BY DEF StillRunning, Resumes, Goto,
         Inv, TypeOK, Poll, PlaceInv, RequestInv, AskedInv, Over,
         CancelsOwnStatements, CancellationKept, ResultHonest,
         clientVars, cancelVars, serviceVars
<1>5. QED
  BY <1>1, <1>2, <1>3, <1>4 DEF Inv

\* The deadline is past: the owner requests the cancellation before it leaves, and
\* whoever is not the owner leaves without a note.
LEMMA TimesOutStep == ASSUME Inv, NEW p \in Polls, TimesOut(p) PROVE Inv'
<1>1. TypeOK'
  BY DEF TimesOut, Resumes, Goto, Leave,
         Inv, TypeOK, Poll, clientVars, cancelVars, serviceVars
<1>2. (closed => \A q \in Polls : Over(q))'
  BY DEF TimesOut, Resumes, Goto, Leave,
         Inv, TypeOK, Poll, Over, clientVars, cancelVars, serviceVars
<1>3. ASSUME NEW q \in Polls
      PROVE  PlaceInv(q)' /\ RequestInv(q)' /\ AskedInv(q)'
  BY DEF TimesOut, Resumes, Goto, Leave,
         Inv, TypeOK, Poll, PlaceInv, RequestInv, AskedInv, Over,
         clientVars, cancelVars, serviceVars
<1>4. CancelsOwnStatements' /\ CancellationKept' /\ ResultHonest'
  BY DEF TimesOut, Resumes, Goto, Leave,
         Inv, TypeOK, Poll, PlaceInv, RequestInv, AskedInv, Over,
         CancelsOwnStatements, CancellationKept, ResultHonest,
         clientVars, cancelVars, serviceVars
<1>5. QED
  BY <1>1, <1>2, <1>3, <1>4 DEF Inv

\* The note says "requested" for a cancel request that the service took.
LEMMA CancelAnsweredStep == ASSUME Inv, NEW p \in Polls, CancelAnswered(p) PROVE Inv'
<1>1. TypeOK'
  BY DEF CancelAnswered, Resumes, Leave,
         Inv, TypeOK, Poll, clientVars, cancelVars, serviceVars
<1>2. (closed => \A q \in Polls : Over(q))'
  BY DEF CancelAnswered, Resumes, Leave,
         Inv, TypeOK, Poll, Over, clientVars, cancelVars, serviceVars
<1>3. ASSUME NEW q \in Polls
      PROVE  PlaceInv(q)' /\ RequestInv(q)' /\ AskedInv(q)'
  BY DEF CancelAnswered, Resumes, Leave,
         Inv, TypeOK, Poll, PlaceInv, RequestInv, AskedInv, Over,
         clientVars, cancelVars, serviceVars
<1>4. CancelsOwnStatements' /\ CancellationKept' /\ ResultHonest'
  BY DEF CancelAnswered, Resumes, Leave,
         Inv, TypeOK, Poll, PlaceInv, RequestInv, AskedInv, Over,
         CancelsOwnStatements, CancellationKept, ResultHonest,
         clientVars, cancelVars, serviceVars
<1>5. QED
  BY <1>1, <1>2, <1>3, <1>4 DEF Inv

\* The synchronous client has no task cancellation that an interrupt could swallow.
LEMMA InterruptStep == ASSUME Inv, NEW p \in Polls, Interrupt(p) PROVE Inv'
<1>1. TypeOK'
  BY DEF Interrupt, Leave,
         Inv, TypeOK, Poll, clientVars, cancelVars, serviceVars
<1>2. (closed => \A q \in Polls : Over(q))'
  BY DEF Interrupt, Leave,
         Inv, TypeOK, Poll, Over, clientVars, cancelVars, serviceVars
<1>3. ASSUME NEW q \in Polls
      PROVE  PlaceInv(q)' /\ RequestInv(q)' /\ AskedInv(q)'
  BY DEF Interrupt, Leave,
         Inv, TypeOK, Poll, PlaceInv, RequestInv, AskedInv, Over,
         clientVars, cancelVars, serviceVars
<1>4. CancelsOwnStatements' /\ CancellationKept' /\ ResultHonest'
  BY DEF Interrupt, Leave,
         Inv, TypeOK, Poll, PlaceInv, RequestInv, AskedInv, Over,
         CancelsOwnStatements, CancellationKept, ResultHonest,
         clientVars, cancelVars, serviceVars
<1>5. QED
  BY <1>1, <1>2, <1>3, <1>4 DEF Inv

\* It ends a call that has no cancel request to make: no handle is known, or it is
\* somebody else's.
LEMMA DeliverStep == ASSUME Inv, NEW p \in Polls, Deliver(p) PROVE Inv'
<1>1. Leave(p, "cancelled", "none")
  BY DEF Deliver
<1>2. /\ poll[p].cancelled /\ poll[p].pc \notin {"drain", "over"}
      /\ poll[p].pc = "first" \/ ~ owned[p]
      /\ poll \in [Polls -> Poll] /\ poll[p] \in Poll
      /\ UNCHANGED <<clientVars, cancelVars, serviceVars, requested>>
  BY DEF Deliver, Inv, TypeOK, AskedInv, Over
<1>3. TypeOK'
  BY <1>1, <1>2 DEF Leave, Inv, TypeOK, Poll, clientVars, cancelVars, serviceVars
<1>4. /\ poll'[p].pc = "over" /\ poll'[p].reply = "none"
      /\ poll'[p].result = "cancelled" /\ poll'[p].note = "none"
      /\ ~ poll'[p].cancelled
      /\ poll'[p].deadline = poll[p].deadline
      /\ poll'[p].asked = poll[p].asked
      /\ \A q \in Polls \ {p} : poll'[q] = poll[q]
  BY <1>1, Leaves
<1>5. (closed => \A q \in Polls : Over(q))'
  BY <1>2, <1>4 DEF Inv, Over, clientVars
<1>6. ASSUME NEW q \in Polls
      PROVE  PlaceInv(q)' /\ RequestInv(q)' /\ AskedInv(q)'
  BY <1>2, <1>4
     DEF Inv, Poll, PlaceInv, RequestInv, AskedInv, Over,
         clientVars, cancelVars, serviceVars
<1>7. CancelsOwnStatements' /\ CancellationKept' /\ ResultHonest'
  BY <1>2, <1>4
     DEF Inv, Poll, PlaceInv, RequestInv, AskedInv, Over,
         CancelsOwnStatements, CancellationKept, ResultHonest,
         clientVars, cancelVars, serviceVars
<1>8. QED
  BY <1>3, <1>5, <1>6, <1>7 DEF Inv

\* In _poll() the cancel request is made first, whatever was going on.
LEMMA DeliverInPollStep == ASSUME Inv, NEW p \in Polls, DeliverInPoll(p) PROVE Inv'
<1>1. TypeOK'
  BY DEF DeliverInPoll,
         Inv, TypeOK, Poll, clientVars, cancelVars, serviceVars
<1>2. (closed => \A q \in Polls : Over(q))'
  BY DEF DeliverInPoll,
         Inv, TypeOK, Poll, Over, clientVars, cancelVars, serviceVars
<1>3. ASSUME NEW q \in Polls
      PROVE  PlaceInv(q)' /\ RequestInv(q)' /\ AskedInv(q)'
  BY DEF DeliverInPoll,
         Inv, TypeOK, Poll, PlaceInv, RequestInv, AskedInv, Over,
         clientVars, cancelVars, serviceVars
<1>4. CancelsOwnStatements' /\ CancellationKept' /\ ResultHonest'
  BY DEF DeliverInPoll,
         Inv, TypeOK, Poll, PlaceInv, RequestInv, AskedInv, Over,
         CancelsOwnStatements, CancellationKept, ResultHonest,
         clientVars, cancelVars, serviceVars
<1>5. QED
  BY <1>1, <1>2, <1>3, <1>4 DEF Inv

\* The first cancellation goes on when the request is over.
LEMMA DrainedStep == ASSUME Inv, NEW p \in Polls, Drained(p) PROVE Inv'
<1>1. Leave(p, "cancelled", "none")
  BY DEF Drained
<1>2. /\ poll[p].pc = "drain" /\ ~ Unfinished(p)
      /\ poll \in [Polls -> Poll] /\ poll[p] \in Poll
      /\ UNCHANGED <<clientVars, cancelVars, serviceVars, requested>>
  BY DEF Drained, Inv, TypeOK
<1>3. TypeOK'
  BY <1>1, <1>2 DEF Leave, Inv, TypeOK, Poll, clientVars, cancelVars, serviceVars
<1>4. /\ poll'[p].pc = "over" /\ poll'[p].reply = "none"
      /\ poll'[p].result = "cancelled" /\ poll'[p].note = "none"
      /\ ~ poll'[p].cancelled
      /\ poll'[p].deadline = poll[p].deadline
      /\ poll'[p].asked = poll[p].asked
      /\ \A q \in Polls \ {p} : poll'[q] = poll[q]
  BY <1>1, Leaves
<1>5. (closed => \A q \in Polls : Over(q))'
  BY <1>2, <1>4 DEF Inv, Over, clientVars
<1>6. ASSUME NEW q \in Polls
      PROVE  PlaceInv(q)' /\ RequestInv(q)' /\ AskedInv(q)'
  BY <1>2, <1>4
     DEF Inv, Poll, PlaceInv, RequestInv, AskedInv, Over,
         clientVars, cancelVars, serviceVars, Unfinished
<1>7. CancelsOwnStatements' /\ CancellationKept' /\ ResultHonest'
  BY <1>2, <1>4
     DEF Inv, Poll, PlaceInv, RequestInv, AskedInv, Over,
         CancelsOwnStatements, CancellationKept, ResultHonest,
         clientVars, cancelVars, serviceVars, Unfinished
<1>8. QED
  BY <1>3, <1>5, <1>6, <1>7 DEF Inv

\* The request that is left behind was told to stop, after its five seconds, and is
\* referred to.
LEMMA AbandonStep == ASSUME Inv, NEW p \in Polls, Abandon(p) PROVE Inv'
<1>1. TypeOK'
  BY DEF Abandon, Unfinished, Leave,
         Inv, TypeOK, Poll, clientVars, cancelVars, serviceVars
<1>2. (closed => \A q \in Polls : Over(q))'
  BY DEF Abandon, Unfinished, Leave,
         Inv, TypeOK, Poll, Over, clientVars, cancelVars, serviceVars
<1>3. ASSUME NEW q \in Polls
      PROVE  PlaceInv(q)' /\ RequestInv(q)' /\ AskedInv(q)'
  BY DEF Abandon, Unfinished, Leave,
         Inv, TypeOK, Poll, PlaceInv, RequestInv, AskedInv, Over,
         clientVars, cancelVars, serviceVars
<1>4. CancelsOwnStatements' /\ CancellationKept' /\ ResultHonest'
  BY DEF Abandon, Unfinished, Leave,
         Inv, TypeOK, Poll, PlaceInv, RequestInv, AskedInv, Over,
         CancelsOwnStatements, CancellationKept, ResultHonest,
         clientVars, cancelVars, serviceVars
<1>5. QED
  BY <1>1, <1>2, <1>3, <1>4 DEF Inv

\* The five seconds end.
LEMMA GraceStep == ASSUME Inv, NEW p \in Polls, GraceEnds(p) PROVE Inv'
<1>1. TypeOK'
  BY DEF GraceEnds,
         Inv, TypeOK, Poll, clientVars, cancelVars, serviceVars
<1>2. (closed => \A q \in Polls : Over(q))'
  BY DEF GraceEnds,
         Inv, TypeOK, Poll, Over, clientVars, cancelVars, serviceVars
<1>3. ASSUME NEW q \in Polls
      PROVE  PlaceInv(q)' /\ RequestInv(q)' /\ AskedInv(q)'
  BY DEF GraceEnds,
         Inv, TypeOK, Poll, PlaceInv, RequestInv, AskedInv, Over,
         clientVars, cancelVars, serviceVars
<1>4. CancelsOwnStatements' /\ CancellationKept' /\ ResultHonest'
  BY DEF GraceEnds,
         Inv, TypeOK, Poll, PlaceInv, RequestInv, AskedInv, Over,
         CancelsOwnStatements, CancellationKept, ResultHonest,
         clientVars, cancelVars, serviceVars
<1>5. QED
  BY <1>1, <1>2, <1>3, <1>4 DEF Inv

-----------------------------------------------------------------------------
\* The parts of the inductive invariant, and the tuples of variables that the
\* actions leave alone.
USE DEF Inv, TypeOK, Poll, PlaceInv, RequestInv, AskedInv, Over,
        CancelsOwnStatements, CancellationKept, ResultHonest,
        clientVars, cancelVars, serviceVars

-----------------------------------------------------------------------------
(* The other steps: the definitions in use are those of the invariant.       *)

\* It holds before the first request: nothing is waited for, asked for or told.
LEMMA InvInit == Init => Inv
<1> SUFFICES ASSUME Init PROVE Inv
  OBVIOUS
<1>1. TypeOK
  <2>1. stmt \in [Polls -> {"none", "running", "over"}]
    BY DEF Init
  <2>2. QED
    BY <2>1 DEF Init, NewPoll
<1>2. ~ closed /\ requested = {} /\ abandoned = {}
  BY DEF Init
<1>3. \A p \in Polls : PlaceInv(p) /\ RequestInv(p) /\ AskedInv(p)
  BY DEF Init, NewPoll
<1>4. CancelsOwnStatements /\ CancellationKept /\ ResultHonest
  BY DEF Init, NewPoll
<1>5. QED
  BY <1>1, <1>2, <1>3, <1>4

\* The service takes a statement only forwards, and forgets no cancel request: what
\* the client was answered stays true.
LEMMA ServiceStep == ASSUME Inv, NEW p \in Polls, Service(p) PROVE Inv'
<1>1. CASE Execute(p)
  BY <1>1 DEF Execute
<1>2. CASE Finish(p)
  BY <1>2 DEF Finish
<1>3. CASE TakeCancel(p)
  BY <1>3 DEF TakeCancel
<1>4. QED
  BY <1>1, <1>2, <1>3 DEF Service

\* A deadline passes only once it has been taken.
LEMMA DeadlineStep == ASSUME Inv, NEW p \in Polls, DeadlinePasses(p) PROVE Inv'
BY DEF DeadlinePasses

\* A request that ends is still referred to until its callback has run.
LEMMA RequestEndsStep == ASSUME Inv, NEW p \in Polls, RequestEnds(p) PROVE Inv'
BY DEF RequestEnds, Unfinished

\* The callback removes it from the set.
LEMMA SettleStep == ASSUME Inv, NEW p \in Polls, Settle(p) PROVE Inv'
BY DEF Settle

\* The client is closed when all calls are over, and no call is made after that.
LEMMA CloseStep == ASSUME Inv, Close PROVE Inv'
BY DEF Close

LEMMA InvStep == Inv /\ [Next]_vars => Inv'
<1> SUFFICES ASSUME Inv, [Next]_vars PROVE Inv'
  OBVIOUS
<1>1. ASSUME NEW p \in Polls, Step(p) PROVE Inv'
  BY <1>1, FirstRunningStep, FinishedStep, FailsStep, StillRunningStep, WakeUpStep,
     TimesOutStep, CancelAnsweredStep, DeliverStep, DeliverInPollStep, DrainedStep,
     AbsorbStep, AbandonStep
     DEF Step
<1>2. ASSUME NEW p \in Polls,
             \/ Service(p) \/ Answer(p)
             \/ DeadlinePasses(p) \/ GraceEnds(p)
             \/ Interrupt(p) \/ TaskCancel(p)
             \/ RequestEnds(p) \/ Settle(p)
      PROVE  Inv'
  BY <1>2, ServiceStep, AnswerStep, DeadlineStep, GraceStep, InterruptStep,
     TaskCancelStep, RequestEndsStep, SettleStep
<1>3. CASE UNCHANGED vars
  BY <1>3 DEF vars
<1>4. QED
  BY <1>1, <1>2, <1>3, CloseStep DEF Next

-----------------------------------------------------------------------------
(* The properties.                                                          *)

\* The inductive invariant, for any number of calls.
THEOREM Invariance == Spec => []Inv
BY InvInit, InvStep, PTL DEF Spec

\* The types of the state of client, calls and service.
THEOREM TypeCorrect == Spec => []TypeOK
<1>1. Inv => TypeOK
  OBVIOUS
<1>2. QED
  BY <1>1, Invariance, PTL

\* Only the call that started a statement has it cancelled, for a timeout or a task
\* cancellation, and it never gives up a statement whose handle it knows without
\* asking for that (_poll of both clients).
THEOREM CancelsOwn == Spec => []CancelsOwnStatements
<1>1. Inv => CancelsOwnStatements
  BY DEF CancelsOwnStatements
<1>2. QED
  BY <1>1, Invariance, PTL

\* A call ends in CancelledError exactly if its task was cancelled while it waited,
\* whatever the cancellation raced with (aclient.py, _poll and
\* _cancel_after_task_cancel).
THEOREM CancellationNeverLost == Spec => []CancellationKept
<1>1. Inv => CancellationKept
  BY DEF CancellationKept
<1>2. QED
  BY <1>1, Invariance, PTL

\* No call returns, and the HTTP client is not closed, under a cancel request that was
\* not told to stop after its five seconds.
THEOREM ClientClosesAfterCancel == Spec => []ClientOutlivesCancel
<1>1. Inv => ClientOutlivesCancel
  BY DEF ClientOutlivesCancel
<1>2. QED
  BY <1>1, Invariance, PTL

\* A cancel request that is not over is referred to by its call or by
\* _abandoned_cancels, which holds nothing that is settled.
THEOREM AbandonedReferred == Spec => []AbandonedHeld
<1>1. Inv => AbandonedHeld
  BY DEF AbandonedHeld, Unfinished
<1>2. QED
  BY <1>1, Invariance, PTL

\* Responses are of finished statements; timeouts come after the deadline and say
\* "cancellation requested" only if the service took the request.
THEOREM CallerToldTruth == Spec => []ResultHonest
<1>1. Inv => ResultHonest
  BY DEF ResultHonest
<1>2. QED
  BY <1>1, Invariance, PTL
=============================================================================
