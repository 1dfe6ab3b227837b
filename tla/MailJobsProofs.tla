---------------------------- MODULE MailJobsProofs ----------------------------
(***************************************************************************)
(* Theorems about MailJobs, for every set of emails and every number of    *)
(* crashes of the mail service.                                            *)
(***************************************************************************)
EXTENDS MailJobs, TLAPS

Position == Nat \ {0}
Ascending(q) == \A j \in DOMAIN q : \A i \in 1..(j - 1) : q[i] < q[j]

\* A position appended behind all others of a sequence.
LEMMA AppendPositions ==
  ASSUME NEW q \in Seq(Position), NEW k \in Position,
         Ascending(q), \A i \in DOMAIN q : q[i] < k
  PROVE  /\ Append(q, k) \in Seq(Position) /\ Ascending(Append(q, k))
         /\ \A i \in DOMAIN Append(q, k) :
               \/ i \in DOMAIN q /\ Append(q, k)[i] = q[i]
               \/ i = Len(q) + 1 /\ Append(q, k)[i] = k
<1>1. /\ Append(q, k) \in Seq(Position)
      /\ \A i \in DOMAIN Append(q, k) :
            \/ i \in DOMAIN q /\ Append(q, k)[i] = q[i]
            \/ i = Len(q) + 1 /\ Append(q, k)[i] = k
  OBVIOUS
<1>2. ASSUME NEW j \in DOMAIN Append(q, k), NEW i \in 1..(j - 1)
      PROVE  Append(q, k)[i] < Append(q, k)[j]
  <2>1. i \in DOMAIN q /\ Append(q, k)[i] = q[i]
    OBVIOUS
  <2> QED
    BY <1>1, <2>1 DEF Ascending
<1> QED
  BY <1>1, <1>2 DEF Ascending

\* The elements of a tail are those of the sequence, one place on.
LEMMA TailPositions ==
  ASSUME NEW q \in Seq(Position), q # <<>>, Ascending(q)
  PROVE  /\ Tail(q) \in Seq(Position) /\ Ascending(Tail(q))
         /\ 1 \in DOMAIN q /\ Head(q) = q[1] /\ Head(q) \in Position
         /\ \A i \in DOMAIN Tail(q) :
               i + 1 \in DOMAIN q /\ Tail(q)[i] = q[i + 1] /\ Head(q) < Tail(q)[i]
<1>1. /\ Tail(q) \in Seq(Position) /\ 1 \in DOMAIN q /\ Head(q) = q[1] /\ Head(q) \in Position
      /\ \A i \in DOMAIN Tail(q) : i + 1 \in DOMAIN q /\ Tail(q)[i] = q[i + 1] /\ i >= 1
  OBVIOUS
<1>2. \A i \in DOMAIN Tail(q) : Head(q) < Tail(q)[i]
  BY <1>1 DEF Ascending
<1>3. ASSUME NEW j \in DOMAIN Tail(q), NEW i \in 1..(j - 1)
      PROVE  Tail(q)[i] < Tail(q)[j]
  <2>1. i \in DOMAIN Tail(q) /\ j \in Nat /\ i + 1 \in 1..((j + 1) - 1)
    OBVIOUS
  <2> QED
    BY <1>1, <2>1 DEF Ascending
<1>4. Ascending(Tail(q))
  BY <1>3 DEF Ascending
<1> QED
  BY <1>1, <1>2, <1>4

-----------------------------------------------------------------------------
(* The invariant. *)

Working == {"render", "post"}

\* A job is published once, and its publisher was told so.
LogInv ==
    /\ \A k \in DOMAIN log : answer[log[k]] = "ok"
    /\ \A i, k \in DOMAIN log : log[i] = log[k] => i = k
    /\ \A j \in Job : answer[j] = "none" => at[j] = "none"

\* What is posted, at the callback and pending are ascending positions of the
\* log; the callback posts nothing that was posted.
PipeInv ==
    /\ Ascending(posted) /\ Ascending(queue)
    /\ \A i \in DOMAIN posted : posted[i] \in DOMAIN log
    /\ \A i \in DOMAIN queue : queue[i] \in DOMAIN log /\ at[log[queue[i]]] = "none"
    /\ \A i \in DOMAIN posted : \A k \in DOMAIN queue : posted[i] < queue[k]
    /\ callback # 0 =>
          /\ callback \in DOMAIN log
          /\ \A k \in DOMAIN queue : callback < queue[k]
          /\ at[log[callback]] \in Working => \A i \in DOMAIN posted : posted[i] < callback

\* The results of SendEmail against what SendGrid did.
ResultInv ==
    /\ \A m \in Mail : at[m] \in {"none"} \cup Working => accepted[m] = 0
    /\ \A m \in Mail : at[m] = "nil" => accepted[m] = 1 \/ m \in refused
    /\ \A d \in Direct : answer[d] = "ok" => at[d] = "nil"

MailInv == TypeOK /\ LogInv /\ PipeInv /\ ResultInv /\ AtMostOnce

\* The initial state satisfies the invariant.
LEMMA InitMailInv == Init => MailInv
<1> SUFFICES ASSUME Init PROVE MailInv
  OBVIOUS
<1> USE DEF Init
<1>1. TypeOK
  BY MaxCrashesAssumption DEF TypeOK, Stage
<1>2. LogInv
  BY DEF LogInv, Mail
<1>3. PipeInv
  BY DEF PipeInv, Ascending
<1>4. ResultInv
  BY DEF ResultInv, Working, Mail
<1>5. AtMostOnce
  BY DEF AtMostOnce
<1> QED
  BY <1>1, <1>2, <1>3, <1>4, <1>5 DEF MailInv

\* The steps that change neither a job's place nor its stage.
Quiet ==
    \/ StartEmailSubscriber \/ InitMailGRPC \/ UNCHANGED vars
    \/ \E j \in Job : PublishFails(j)
    \/ \E d \in Direct : Respond(d) \/ GiveUp(d)

\* The steps by what they touch: the ones that leave the pipe and SendGrid alone,
\* and the others one by one.
LEMMA Steps ==
  ASSUME [Next]_vars
  PROVE  \/ Quiet \/ TakeJob \/ CallbackReturns \/ Crash
         \/ \E j \in Job : Publish(j)
         \/ \E d \in Direct : CallSendEmail(d)
         \/ \E m \in Mail : RenderTemplates(m) \/ Send(m)
BY DEF Next, SendEmail, Quiet

\* Every step keeps the state well typed.
LEMMA TypeStep ==
  ASSUME TypeOK, PipeInv, [Next]_vars
  PROVE  TypeOK'
<1> USE DEF TypeOK, Stage, subscriber, sendgrid, Mail, Position
<1>1. CASE Quiet
  BY <1>1 DEF Quiet, StartEmailSubscriber, InitMailGRPC, PublishFails, Respond, GiveUp, vars
<1>2. CASE TakeJob
  <2>1. /\ Head(queue) \in Nat /\ Tail(queue) \in Seq(Nat \ {0})
    BY <1>2 DEF TakeJob
  <2> QED
    BY <1>2, <2>1 DEF TakeJob
<1>3. CASE CallbackReturns
  BY <1>3 DEF CallbackReturns
<1>4. CASE Crash
  <2>1. PICK sent \in SUBSET {m \in Mail : at[m] = "post"} :
           /\ accepted' = [m \in Mail |-> IF m \in sent THEN accepted[m] + 1 ELSE accepted[m]]
           /\ posted' = IF callback # 0 /\ log[callback] \in sent
                        THEN Append(posted, callback) ELSE posted
    BY <1>4 DEF Crash
  <2>2. accepted' \in [Mail -> Nat]
    BY <2>1
  <2>3. posted' \in Seq(Nat \ {0})
    <3>1. callback # 0 => Append(posted, callback) \in Seq(Nat \ {0})
      OBVIOUS
    <3> QED
      BY <2>1, <3>1
  <2>4. crashes' \in 0..MaxCrashes
    BY <1>4, MaxCrashesAssumption DEF Crash
  <2> QED
    BY <1>4, <2>2, <2>3, <2>4 DEF Crash
<1>5. ASSUME NEW j \in Job, Publish(j)
      PROVE  TypeOK'
  <2>1. Len(log) + 1 \in Nat \ {0}
    OBVIOUS
  <2>2. log' \in Seq(Job)
    BY <1>5 DEF Publish
  <2>4. queue' \in Seq(Nat \ {0})
    <3>1. Append(queue, Len(log) + 1) \in Seq(Nat \ {0})
      BY <2>1
    <3> QED
      BY <1>5, <3>1 DEF Publish
  <2>3. answer' \in [Mail -> {"none", "ok", "error"}]
    BY <1>5 DEF Publish
  <2> QED
    BY <1>5, <2>2, <2>3, <2>4 DEF Publish
<1>6. ASSUME NEW d \in Direct, CallSendEmail(d)
      PROVE  TypeOK'
  BY <1>6 DEF CallSendEmail
<1>7. ASSUME NEW m \in Mail, RenderTemplates(m)
      PROVE  TypeOK'
  BY <1>7 DEF RenderTemplates
<1>8. ASSUME NEW m \in Mail, Send(m)
      PROVE  TypeOK'
  <2>1. posted' \in Seq(Nat \ {0})
    BY <1>8 DEF Send, RecordPost
  <2>2. accepted' \in [Mail -> Nat] /\ refused' \subseteq Mail
    BY <1>8 DEF Send
  <2>3. at' \in [Mail -> Stage]
    BY <1>8 DEF Send, Result
  <2> QED
    BY <1>8, <2>1, <2>2, <2>3 DEF Send
<1> QED
  BY <1>1, <1>2, <1>3, <1>4, <1>5, <1>6, <1>7, <1>8, Steps

\* A published job joins the log at its end, where it was not before.
LEMMA PublishedOnce ==
  ASSUME TypeOK, LogInv, NEW j \in Job, Publish(j)
  PROVE  /\ Len(log') = Len(log) + 1 /\ Len(log) \in Nat
         /\ \A k \in DOMAIN log : k \in DOMAIN log' /\ log'[k] = log[k] /\ log[k] # j
         /\ \A k \in DOMAIN log' : k \in DOMAIN log \/ (k = Len(log) + 1 /\ log'[k] = j)
         /\ Len(log) + 1 \in DOMAIN log' /\ log'[Len(log) + 1] = j
<1>1. log' = Append(log, j) /\ answer[j] = "none"
  BY DEF Publish
<1> QED
  BY <1>1 DEF TypeOK, LogInv

\* A job is logged once, when its publisher is answered.
LEMMA LogStep ==
  ASSUME TypeOK, LogInv, PipeInv, [Next]_vars
  PROVE  LogInv'
<1> USE DEF TypeOK, LogInv, subscriber, sendgrid, Mail
<1>1. CASE Quiet
  <2>1. log' = log /\ at' = at
    BY <1>1 DEF Quiet, StartEmailSubscriber, InitMailGRPC, PublishFails, Respond, GiveUp, vars
  <2>2. \A j \in Job : answer[j] # "none" => answer'[j] = answer[j]
    BY <1>1, MailAssumption
       DEF Quiet, StartEmailSubscriber, InitMailGRPC, PublishFails, Respond, GiveUp, vars
  <2>3. \A k \in DOMAIN log : log[k] \in Job
    OBVIOUS
  <2>4. \A k \in DOMAIN log : answer'[log[k]] = "ok"
    BY <2>2, <2>3
  <2>5. \A j \in Job : answer'[j] = "none" => answer[j] = "none"
    BY <2>2
  <2> QED
    BY <2>1, <2>4, <2>5
<1>2. CASE TakeJob
  <2>1. UNCHANGED <<log, answer>> /\ Head(queue) = queue[1] /\ 1 \in DOMAIN queue
    BY <1>2 DEF TakeJob
  <2>2. log[Head(queue)] \in Job /\ answer[log[Head(queue)]] = "ok"
    BY <2>1 DEF PipeInv
  <2>3. \A j \in Job : j # log[Head(queue)] => at'[j] = at[j]
    BY <1>2 DEF TakeJob
  <2> QED
    BY <2>1, <2>2, <2>3
<1>3. ASSUME NEW j \in Job, Publish(j)
      PROVE  LogInv'
  <2>1. answer' = [answer EXCEPT ![j] = "ok"] /\ at' = at
    BY <1>3 DEF Publish
  <2>2. \A k \in DOMAIN log' : answer'[log'[k]] = "ok"
    BY <1>3, <2>1, PublishedOnce
  <2>3. ASSUME NEW i \in DOMAIN log', NEW k \in DOMAIN log', log'[i] = log'[k]
        PROVE  i = k
    <3>1. CASE i \in DOMAIN log /\ k \in DOMAIN log
      BY <1>3, <2>3, <3>1, PublishedOnce
    <3>2. CASE i \notin DOMAIN log \/ k \notin DOMAIN log
      BY <1>3, <2>3, <3>2, PublishedOnce
    <3> QED
      BY <3>1, <3>2
  <2> QED
    BY <2>1, <2>2, <2>3
<1>4. ASSUME UNCHANGED <<log, answer>>,
             \A m \in Mail : at[m] = "none" /\ m \notin Direct => at'[m] = "none"
      PROVE  LogInv'
  BY <1>4, MailAssumption
<1>5. CASE CallbackReturns \/ Crash
  BY <1>4, <1>5 DEF CallbackReturns, Crash
<1>6. ASSUME NEW d \in Direct, CallSendEmail(d)
      PROVE  LogInv'
  BY <1>4, <1>6 DEF CallSendEmail
<1>7. ASSUME NEW m \in Mail, RenderTemplates(m) \/ Send(m)
      PROVE  LogInv'
  BY <1>4, <1>7 DEF RenderTemplates, Send
<1> QED
  BY <1>1, <1>2, <1>3, <1>5, <1>6, <1>7, Steps

\* What SendEmail's steps and the end of a callback leave of the pipe.
LEMMA StageKeepsPipe ==
  ASSUME TypeOK, PipeInv, UNCHANGED <<log, queue, posted>>, callback' \in {0, callback},
         \A m \in Job : (at'[m] \in Working => at[m] \in Working) /\ (at[m] = "none" => at'[m] = "none")
  PROVE  PipeInv'
BY DEF TypeOK, PipeInv, Ascending

\* Queue, callback and posts stay in the order of the log.
LEMMA PipeStep ==
  ASSUME TypeOK, LogInv, PipeInv, [Next]_vars
  PROVE  PipeInv'
<1> USE DEF TypeOK, subscriber, sendgrid, Mail, Position
<1>1. CASE Quiet
  <2>1. UNCHANGED <<log, queue, posted, callback, at>>
    BY <1>1 DEF Quiet, StartEmailSubscriber, InitMailGRPC, PublishFails, Respond, GiveUp, vars
  <2> QED
    BY <2>1, StageKeepsPipe
<1>2. CASE TakeJob
  <2> DEFINE k == Head(queue)
             q == Tail(queue)
  <2>1. /\ UNCHANGED <<log, posted>> /\ callback' = k /\ queue' = q /\ queue # <<>>
        /\ at' = [at EXCEPT ![log[k]] = "render"]
    BY <1>2 DEF TakeJob
  <2>2. /\ q \in Seq(Position) /\ Ascending(q) /\ 1 \in DOMAIN queue /\ k = queue[1] /\ k \in Position
        /\ \A i \in DOMAIN q : i + 1 \in DOMAIN queue /\ q[i] = queue[i + 1] /\ k < q[i]
    BY <2>1, TailPositions DEF PipeInv
  <2> HIDE DEF k, q
  <2>3. k \in DOMAIN log /\ \A i \in DOMAIN posted : posted[i] < k
    BY <2>2 DEF PipeInv
  <2>4. \A i \in DOMAIN q : q[i] \in DOMAIN log /\ q[i] # k /\ log[q[i]] # log[k]
    BY <2>2, <2>3 DEF PipeInv, LogInv
  <2>5. \A i \in DOMAIN q : at'[log[q[i]]] = "none"
    BY <2>1, <2>2, <2>4 DEF PipeInv
  <2>6. \A i \in DOMAIN posted : \A j \in DOMAIN q : posted[i] < q[j]
    BY <2>2 DEF PipeInv
  <2> QED
    BY <2>1, <2>2, <2>3, <2>4, <2>5, <2>6 DEF PipeInv
<1>3. CASE CallbackReturns
  <2>1. UNCHANGED <<log, queue, posted, at>> /\ callback' = 0
    BY <1>3 DEF CallbackReturns
  <2> QED
    BY <2>1, StageKeepsPipe
<1>4. CASE Crash
  <2>1. PICK sent \in SUBSET {m \in Mail : at[m] = "post"} :
           posted' = IF callback # 0 /\ log[callback] \in sent
                     THEN Append(posted, callback) ELSE posted
    BY <1>4 DEF Crash
  <2>2. queue' = <<>> /\ callback' = 0 /\ log' = log
    BY <1>4 DEF Crash
  <2>3. CASE posted' = posted
    BY <2>2, <2>3 DEF PipeInv, Ascending
  <2>4. CASE callback # 0 /\ at[log[callback]] = "post" /\ posted' = Append(posted, callback)
    <3>1. \A i \in DOMAIN posted : posted[i] < callback
      BY <2>4 DEF PipeInv, Working
    <3>2. /\ Ascending(posted')
          /\ \A i \in DOMAIN posted' :
                (i \in DOMAIN posted /\ posted'[i] = posted[i]) \/ posted'[i] = callback
      BY <2>4, <3>1, AppendPositions DEF PipeInv
    <3>3. callback \in DOMAIN log /\ \A i \in DOMAIN posted' : posted'[i] \in DOMAIN log
      BY <2>4, <3>2 DEF PipeInv
    <3>4. Ascending(queue') /\ DOMAIN queue' = {}
      BY <2>2 DEF Ascending
    <3> QED
      BY <2>2, <3>2, <3>3, <3>4 DEF PipeInv
  <2> QED
    BY <2>1, <2>3, <2>4
<1>5. ASSUME NEW j \in Job, Publish(j)
      PROVE  PipeInv'
  <2> DEFINE n == Len(log) + 1
  <2>1. UNCHANGED <<posted, callback, at>> /\ queue' \in {queue, Append(queue, n)}
    BY <1>5 DEF Publish
  <2>2. n \in Position /\ n \in DOMAIN log' /\ log'[n] = j
    BY <1>5, PublishedOnce
  <2>3. at[j] = "none"
    BY <1>5 DEF Publish, LogInv
  <2>4. /\ \A i \in DOMAIN queue : queue[i] < n
        /\ \A i \in DOMAIN posted : posted[i] < n
        /\ callback # 0 => callback < n
    BY DEF PipeInv
  <2>5. \A k \in DOMAIN log : k \in DOMAIN log' /\ log'[k] = log[k]
    BY <1>5, PublishedOnce
  <2> HIDE DEF n
  <2>6. /\ Ascending(queue')
        /\ \A i \in DOMAIN queue' :
              (i \in DOMAIN queue /\ queue'[i] = queue[i]) \/ queue'[i] = n
    <3>1. CASE queue' = queue
      BY <3>1 DEF PipeInv
    <3>2. CASE queue' = Append(queue, n)
      BY <2>2, <2>4, <3>2, AppendPositions DEF PipeInv
    <3> QED
      BY <2>1, <3>1, <3>2
  <2>7. \A i \in DOMAIN queue' : queue'[i] \in DOMAIN log' /\ at'[log'[queue'[i]]] = "none"
    BY <2>1, <2>2, <2>3, <2>5, <2>6 DEF PipeInv
  <2>8. \A i \in DOMAIN posted' : \A k \in DOMAIN queue' : posted'[i] < queue'[k]
    BY <2>1, <2>4, <2>6 DEF PipeInv
  <2>9. Ascending(posted') /\ \A i \in DOMAIN posted' : posted'[i] \in DOMAIN log'
    BY <2>1, <2>5 DEF PipeInv
  <2>10. callback' # 0 =>
           /\ callback' \in DOMAIN log'
           /\ \A k \in DOMAIN queue' : callback' < queue'[k]
           /\ at'[log'[callback']] \in Working => \A i \in DOMAIN posted' : posted'[i] < callback'
    BY <2>1, <2>4, <2>5, <2>6 DEF PipeInv
  <2> QED
    BY <2>6, <2>7, <2>8, <2>9, <2>10 DEF PipeInv
<1>6. ASSUME NEW d \in Direct, CallSendEmail(d)
      PROVE  PipeInv'
  <2>1. \A m \in Job : at'[m] = at[m]
    BY <1>6, MailAssumption DEF CallSendEmail
  <2>2. UNCHANGED <<log, queue, posted, callback>>
    BY <1>6 DEF CallSendEmail
  <2> QED
    BY <2>1, <2>2, StageKeepsPipe
<1>7. ASSUME NEW m \in Mail, RenderTemplates(m)
      PROVE  PipeInv'
  <2>1. UNCHANGED <<log, queue, posted, callback>>
    BY <1>7 DEF RenderTemplates
  <2>2. at[m] \in Working /\ at'[m] # "none" /\ \A o \in Mail : o # m => at'[o] = at[o]
    BY <1>7 DEF RenderTemplates, Working
  <2>3. \A o \in Job : (at'[o] \in Working => at[o] \in Working) /\ (at[o] = "none" => at'[o] = "none")
    BY <2>2 DEF Working
  <2> QED
    BY <2>1, <2>3, StageKeepsPipe
<1>8. ASSUME NEW m \in Mail, Send(m)
      PROVE  PipeInv'
  <2>1. UNCHANGED <<log, queue, callback>>
    BY <1>8 DEF Send
  <2>2. at[m] = "post" /\ at'[m] \notin {"none"} \cup Working /\ \A o \in Mail : o # m => at'[o] = at[o]
    BY <1>8 DEF Send, Result, Working
  <2>3. \A o \in Job : (at'[o] \in Working => at[o] \in Working) /\ (at[o] = "none" => at'[o] = "none")
    BY <2>2 DEF Working
  <2>4. CASE posted' = posted
    BY <2>1, <2>3, <2>4, StageKeepsPipe
  <2>5. CASE callback # 0 /\ log[callback] = m /\ posted' = Append(posted, callback)
    <3>1. \A i \in DOMAIN posted : posted[i] < callback
      BY <2>2, <2>5 DEF PipeInv, Working
    <3>2. /\ Ascending(posted')
          /\ \A i \in DOMAIN posted' :
                (i \in DOMAIN posted /\ posted'[i] = posted[i]) \/ posted'[i] = callback
      BY <2>5, <3>1, AppendPositions DEF PipeInv
    <3>3. \A i \in DOMAIN queue : queue[i] \in DOMAIN log /\ at'[log[queue[i]]] = "none"
      BY <2>3 DEF PipeInv
    <3>4. /\ callback \in DOMAIN log /\ at'[log[callback]] \notin Working
          /\ \A k \in DOMAIN queue : callback < queue[k]
      BY <2>2, <2>5 DEF PipeInv
    <3>5. \A i \in DOMAIN posted' : \A k \in DOMAIN queue : posted'[i] < queue[k]
      BY <3>2, <3>4 DEF PipeInv
    <3>6. \A i \in DOMAIN posted' : posted'[i] \in DOMAIN log
      BY <3>2, <3>4 DEF PipeInv
    <3> QED
      BY <2>1, <3>2, <3>3, <3>4, <3>5, <3>6 DEF PipeInv
  <2> QED
    BY <1>8, <2>4, <2>5 DEF Send, RecordPost
<1> QED
  BY <1>1, <1>2, <1>3, <1>4, <1>5, <1>6, <1>7, <1>8, Steps

\* Results, answers and what SendGrid accepted keep agreeing, no email is accepted
\* twice.
LEMMA ResultStep ==
  ASSUME TypeOK, PipeInv, ResultInv, AtMostOnce, [Next]_vars
  PROVE  ResultInv' /\ AtMostOnce'
<1> USE DEF TypeOK, ResultInv, AtMostOnce, subscriber, sendgrid, Mail, Working
<1>1. CASE Quiet
  <2>1. UNCHANGED <<at, accepted, refused>>
    BY <1>1 DEF Quiet, StartEmailSubscriber, InitMailGRPC, PublishFails, Respond, GiveUp, vars
  <2>2. \A d \in Direct : answer'[d] = "ok" => answer[d] = "ok" \/ at[d] = "nil"
    BY <1>1, MailAssumption
       DEF Quiet, StartEmailSubscriber, InitMailGRPC, PublishFails, Respond, GiveUp, vars
  <2> QED
    BY <2>1, <2>2
<1>2. CASE TakeJob
  <2>1. Head(queue) = queue[1] /\ 1 \in DOMAIN queue
    BY <1>2 DEF TakeJob
  <2>2. log[Head(queue)] \in Job /\ at[log[Head(queue)]] = "none"
    BY <2>1 DEF PipeInv
  <2> QED
    BY <1>2, <2>2, MailAssumption DEF TakeJob
<1>3. CASE CallbackReturns
  BY <1>3 DEF CallbackReturns
<1>4. CASE Crash
  <2>1. PICK sent \in SUBSET {m \in Mail : at[m] = "post"} :
           accepted' = [m \in Mail |-> IF m \in sent THEN accepted[m] + 1 ELSE accepted[m]]
    BY <1>4 DEF Crash
  <2>2. \A m \in Mail : /\ m \in sent => at[m] = "post" /\ accepted'[m] = 1
                        /\ m \notin sent => accepted'[m] = accepted[m]
    BY <2>1
  <2>3. \A m \in Mail : at'[m] = IF at[m] \in {"render", "post"} THEN "err" ELSE at[m]
    BY <1>4 DEF Crash
  <2>4. UNCHANGED <<answer, refused>>
    BY <1>4 DEF Crash
  <2>5. \A m \in Mail : at'[m] \in {"none"} \cup Working => m \notin sent /\ at[m] = "none"
    BY <2>2, <2>3
  <2>6. \A m \in Mail : at'[m] = "nil" => at[m] = "nil" /\ m \notin sent
    BY <2>2, <2>3
  <2>7. \A m \in Mail : at[m] = "nil" => at'[m] = "nil"
    BY <2>3
  <2>8. ResultInv'
    BY <2>2, <2>4, <2>5, <2>6, <2>7
  <2>9. ASSUME NEW m \in Mail
        PROVE  accepted'[m] <= 1
    <3>1. CASE m \in sent
      BY <2>2, <3>1
    <3>2. accepted[m] <= 1
      OBVIOUS
    <3>3. CASE m \notin sent
      BY <2>2, <3>2, <3>3
    <3> QED
      BY <3>1, <3>3
  <2> QED
    BY <2>8, <2>9
<1>5. ASSUME NEW j \in Job, Publish(j)
      PROVE  ResultInv' /\ AtMostOnce'
  BY <1>5, MailAssumption DEF Publish
<1>6. ASSUME NEW d \in Direct, CallSendEmail(d)
      PROVE  ResultInv' /\ AtMostOnce'
  BY <1>6 DEF CallSendEmail
<1>7. ASSUME NEW m \in Mail, RenderTemplates(m)
      PROVE  ResultInv' /\ AtMostOnce'
  BY <1>7 DEF RenderTemplates
<1>8. ASSUME NEW m \in Mail, Send(m)
      PROVE  ResultInv' /\ AtMostOnce'
  <2>1. PICK r \in Response :
           /\ at' = [at EXCEPT ![m] = Result(r)]
           /\ accepted' = IF r \in {"accepted", "lost"} THEN [accepted EXCEPT ![m] = @ + 1] ELSE accepted
           /\ refused' = IF r = "refused" THEN refused \cup {m} ELSE refused
    BY <1>8 DEF Send
  <2>2. at[m] = "post" /\ accepted[m] = 0 /\ answer' = answer
    BY <1>8 DEF Send
  <2>3. /\ at'[m] \in {"nil", "err"} /\ accepted'[m] \in {0, 1} /\ refused \subseteq refused'
        /\ at'[m] = "nil" => accepted'[m] = 1 \/ m \in refused'
    BY <2>1, <2>2 DEF Result, Response
  <2>4. \A o \in Mail : o # m => at'[o] = at[o] /\ accepted'[o] = accepted[o]
    BY <2>1
  <2>5. ASSUME NEW o \in Mail
        PROVE  /\ accepted'[o] <= 1
               /\ at'[o] \in {"none"} \cup Working => accepted'[o] = 0
               /\ at'[o] = "nil" => accepted'[o] = 1 \/ o \in refused'
    <3>1. CASE o = m
      BY <2>3, <3>1
    <3>2. /\ accepted[o] <= 1
          /\ at[o] \in {"none"} \cup Working => accepted[o] = 0
          /\ at[o] = "nil" => accepted[o] = 1 \/ o \in refused
      OBVIOUS
    <3>3. CASE o # m
      BY <2>3, <2>4, <3>2, <3>3
    <3> QED
      BY <3>1, <3>3
  <2>6. \A d \in Direct : answer'[d] = "ok" => at'[d] = "nil"
    <3> SUFFICES ASSUME NEW d \in Direct, answer[d] = "ok"
                 PROVE  at'[d] = "nil"
      BY <2>2
    <3>1. at[d] = "nil"
      OBVIOUS
    <3>2. d \in Mail /\ d # m
      BY <2>2, <3>1 DEF Mail
    <3> QED
      BY <2>4, <3>1, <3>2
  <2> QED
    BY <2>5, <2>6
<1> QED
  BY <1>1, <1>2, <1>3, <1>4, <1>5, <1>6, <1>7, <1>8, Steps

-----------------------------------------------------------------------------
(* The theorems. *)

\* The invariant holds of publishers and mail service across crashes.
THEOREM MailInvariant == Spec => []MailInv
<1>1. MailInv /\ [Next]_vars => MailInv'
  BY TypeStep, LogStep, PipeStep, ResultStep DEF MailInv
<1> QED
  BY <1>1, InitMailInv, PTL DEF Spec

\* The variables keep their types.
THEOREM MailTypeCorrect == Spec => []TypeOK
<1>1. MailInv => TypeOK
  BY DEF MailInv
<1> QED
  BY <1>1, MailInvariant, PTL

\* No step of the code has SendGrid accept an email a second time.
THEOREM NobodyGetsItTwice == Spec => []AtMostOnce
<1>1. MailInv => AtMostOnce
  BY DEF MailInv
<1> QED
  BY <1>1, MailInvariant, PTL

\* Ok is told only of an email SendGrid has seen.
THEOREM OkMeansAnswered == Spec => []OkWasAnswered
<1>1. MailInv => OkWasAnswered
  BY DEF MailInv, ResultInv, OkWasAnswered, Mail
<1> QED
  BY <1>1, MailInvariant, PTL

\* The initial state is one of the feed.
LEMMA InitIsFeed == Init => Feed!FeedInit
BY DEF Init, Feed!FeedInit

\* A step that posts the job at the callback hands it to SendGrid.
LEMMA PostIsHand ==
  ASSUME MailInv, callback # 0, at[log[callback]] = "post",
         posted' = Append(posted, callback), UNCHANGED log
  PROVE  Feed!FeedNext
<1>1. callback \in DOMAIN log /\ \A i \in DOMAIN posted : posted[i] < callback
  BY DEF MailInv, PipeInv, Working
<1>2. Feed!Hand("SendGrid", callback)
  BY <1>1 DEF Feed!Hand, Feed!Ahead
<1> QED
  BY <1>1, <1>2 DEF Feed!FeedNext

\* Every step is a step of the feed or leaves it alone.
LEMMA StepIsFeed ==
  ASSUME MailInv, [Next]_vars
  PROVE  [Feed!FeedNext]_(Feed!feedVars)
<1>1. ASSUME NEW j \in Job, Publish(j)
      PROVE  Feed!FeedNext
  BY <1>1 DEF Publish, sendgrid, Feed!FeedNext, Feed!Announce
<1>2. ASSUME NEW m \in Mail, Send(m), UNCHANGED log
      PROVE  [Feed!FeedNext]_(Feed!feedVars)
  BY <1>2, PostIsHand DEF Send, RecordPost, Feed!feedVars
<1>3. CASE Crash
  <2>1. PICK sent \in SUBSET {m \in Mail : at[m] = "post"} :
           posted' = IF callback # 0 /\ log[callback] \in sent
                     THEN Append(posted, callback) ELSE posted
    BY <1>3 DEF Crash
  <2>2. UNCHANGED log
    BY <1>3 DEF Crash
  <2> QED
    BY <2>1, <2>2, PostIsHand DEF Feed!feedVars
<1>4. ASSUME UNCHANGED <<log, posted>>
      PROVE  UNCHANGED Feed!feedVars
  BY <1>4 DEF Feed!feedVars
<1>5. CASE Quiet
  BY <1>4, <1>5 DEF Quiet, StartEmailSubscriber, InitMailGRPC, PublishFails, Respond, GiveUp,
                    vars, sendgrid
<1>6. \A m \in Mail : Send(m) => UNCHANGED log
  BY DEF Send
<1> QED
  BY <1>1, <1>2, <1>3, <1>4, <1>5, <1>6, Steps
     DEF TakeJob, CallbackReturns, CallSendEmail, RenderTemplates, sendgrid

\* Publishers, NATS and the mail service implement the lossy feed.
THEOREM MailRefinesFeed == Spec => RefinesFeed
<1>1. Spec => Feed!FeedInit /\ [][Feed!FeedNext]_(Feed!feedVars)
  BY InitIsFeed, StepIsFeed, MailInvariant, PTL DEF Spec
<1> QED
  BY <1>1 DEF RefinesFeed, Feed!FeedSpec
==============================================================================
