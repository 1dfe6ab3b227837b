------------------------------- MODULE MailJobs -------------------------------
(***************************************************************************)
(* Emails: account and order publish jobs on NATS, one subscriber of the   *)
(* mail service takes them one at a time and posts them to SendGrid; a     *)
(* client of its gRPC port may ask for an email directly.                  *)
(***************************************************************************)
EXTENDS Naturals, Sequences, FiniteSets, SequencesExt

CONSTANTS
    Job,        \* emails of account and order: one per account or order stored
    Direct,     \* emails asked for by SendEmail calls
    MaxCrashes  \* bound on crashes of the mail service

VARIABLES
    service,  \* the mail service: "down", "subscribed" or "serving"
    log,      \* history: the jobs published on emails.send
    queue,    \* positions of log in flight to the subscriber or pending there
    callback, \* the position its callback works on, 0 for none
    at,       \* the call of MailService.SendEmail for an email
    answer,   \* what the publisher, or the client of the gRPC port, is told
    posted,   \* history: positions posted to SendGrid
    accepted, \* how often SendGrid accepted an email
    refused,  \* emails SendGrid answered with an error status
    crashes

subscriber == <<queue, callback>>
sendgrid == <<posted, accepted, refused>>
vars == <<service, log, subscriber, at, answer, sendgrid, crashes>>

Mail == Job \cup Direct

ASSUME MailAssumption == Job \cap Direct = {}
ASSUME MaxCrashesAssumption == MaxCrashes \in Nat

\* "nil" and "err" are the results of SendEmail.
Stage == {"none", "render", "post", "nil", "err"}

TypeOK ==
    /\ service \in {"down", "subscribed", "serving"}
    /\ log \in Seq(Job)
    /\ queue \in Seq(Nat \ {0})
    /\ callback \in Nat
    /\ at \in [Mail -> Stage]
    /\ answer \in [Mail -> {"none", "ok", "error"}]
    /\ posted \in Seq(Nat \ {0})
    /\ accepted \in [Mail -> Nat]
    /\ refused \subseteq Mail
    /\ crashes \in 0..MaxCrashes

Init ==
    /\ service = "down"
    /\ log = <<>>
    /\ queue = <<>>
    /\ callback = 0
    /\ at = [m \in Mail |-> "none"]
    /\ answer = [m \in Mail |-> "none"]
    /\ posted = <<>>
    /\ accepted = [m \in Mail |-> 0]
    /\ refused = {}
    /\ crashes = 0

-----------------------------------------------------------------------------
(* The publishers: the ends of PostAccount and PostOrder. *)

\* Core NATS keeps nothing for a subscriber that is not there, and may lose the
\* job of one that is; the publisher is told nothing of either.
Publish(j) ==
    /\ answer[j] = "none"
    /\ answer' = [answer EXCEPT ![j] = "ok"]
    /\ log' = Append(log, j)
    /\ \/ service # "down" /\ queue' = Append(queue, Len(log) + 1)
       \/ UNCHANGED queue
    /\ UNCHANGED <<service, callback, at, sendgrid, crashes>>

\* Publish returns an error: no job, though the account or order is stored.
PublishFails(j) ==
    /\ answer[j] = "none"
    /\ answer' = [answer EXCEPT ![j] = "error"]
    /\ UNCHANGED <<service, log, subscriber, at, sendgrid, crashes>>

-----------------------------------------------------------------------------
(* The mail service: start, subscriber and gRPC handler. *)

StartEmailSubscriber ==
    /\ service = "down"
    /\ service' = "subscribed"
    /\ UNCHANGED <<log, subscriber, at, answer, sendgrid, crashes>>

InitMailGRPC ==
    /\ service = "subscribed"
    /\ service' = "serving"
    /\ UNCHANGED <<log, subscriber, at, answer, sendgrid, crashes>>

\* A goroutine per job.
TakeAnyJob ==
    /\ callback = 0
    /\ \E i \in DOMAIN queue :
          /\ callback' = queue[i]
          /\ queue' = RemoveAt(queue, i)
          /\ at' = [at EXCEPT ![log[queue[i]]] = "render"]
    /\ UNCHANGED <<service, log, answer, sendgrid, crashes>>

\* The NATS client calls the callback when the call before has returned.  A job
\* of account or order can be decoded and has its fields.
TakeJob ==
    /\ callback = 0
    /\ queue # <<>>
    /\ callback' = Head(queue)
    /\ queue' = Tail(queue)
    /\ at' = [at EXCEPT ![log[Head(queue)]] = "render"]
    /\ UNCHANGED <<service, log, answer, sendgrid, crashes>>

Finished(m) == at[m] \in {"nil", "err"}

ReturnWhenSent ==
    /\ callback # 0
    /\ at[log[callback]] = "nil"
    /\ callback' = 0
    /\ UNCHANGED <<service, log, queue, at, answer, sendgrid, crashes>>

\* The callback logs an error and returns: the job is not taken up again.
CallbackReturns ==
    /\ callback # 0
    /\ Finished(log[callback])
    /\ callback' = 0
    /\ UNCHANGED <<service, log, queue, at, answer, sendgrid, crashes>>

\* A client calls SendEmail; with a field empty that is an error.
CallSendEmail(d) ==
    /\ service = "serving"
    /\ at[d] = "none"
    /\ at' \in {[at EXCEPT ![d] = "render"], [at EXCEPT ![d] = "err"]}
    /\ UNCHANGED <<service, log, subscriber, answer, sendgrid, crashes>>

\* The handler answers with the result as it is.
RespondResult(d) ==
    /\ answer[d] = "none"
    /\ Finished(d)
    /\ answer' = [answer EXCEPT ![d] = at[d]]
    /\ UNCHANGED <<service, log, subscriber, at, sendgrid, crashes>>

\* The handler answers Ok for nil; SendGrid's refusal, too, is nil.
Respond(d) ==
    /\ answer[d] = "none"
    /\ Finished(d)
    /\ answer' = [answer EXCEPT ![d] = IF at[d] = "nil" THEN "ok" ELSE "error"]
    /\ UNCHANGED <<service, log, subscriber, at, sendgrid, crashes>>

\* The client's deadline passes; SendEmail does not pass its context on.
GiveUp(d) ==
    /\ answer[d] = "none"
    /\ at[d] # "none"
    /\ answer' = [answer EXCEPT ![d] = "error"]
    /\ UNCHANGED <<service, log, subscriber, at, sendgrid, crashes>>

-----------------------------------------------------------------------------
(* MailService.SendEmail. *)

\* A template is missing or cannot be executed.
RenderTemplates(m) ==
    /\ at[m] = "render"
    /\ at' \in {[at EXCEPT ![m] = "post"], [at EXCEPT ![m] = "err"]}
    /\ UNCHANGED <<service, log, subscriber, answer, sendgrid, crashes>>

\* What becomes of a post: SendGrid accepts or refuses the email, or accepts it
\* and its answer is lost, or it is not reached.
Response == {"accepted", "refused", "lost", "unreached"}

\* The error of Send is logged, and nil returned.
NilAlways(r) == "nil"

\* response.StatusCode >= 400 returns the err of Send, which is nil.
Result(r) == IF r \in {"accepted", "refused"} THEN "nil" ELSE "err"

\* m has been posted: the feed of jobs handed to SendGrid.
RecordPost(m) ==
    posted' = IF callback # 0 /\ log[callback] = m THEN Append(posted, callback) ELSE posted

\* An answer that is lost has SendEmail post the email again.
SendAgainIfLost(m) ==
    /\ at[m] = "post"
    /\ RecordPost(m)
    /\ \E r \in Response :
          /\ at' = [at EXCEPT ![m] = IF r = "lost" THEN "post" ELSE Result(r)]
          /\ accepted' = IF r \in {"accepted", "lost"} THEN [accepted EXCEPT ![m] = @ + 1] ELSE accepted
          /\ refused' = IF r = "refused" THEN refused \cup {m} ELSE refused
    /\ UNCHANGED <<service, log, subscriber, answer, crashes>>

Send(m) ==
    /\ at[m] = "post"
    /\ RecordPost(m)
    /\ \E r \in Response :
          /\ at' = [at EXCEPT ![m] = Result(r)]
          /\ accepted' = IF r \in {"accepted", "lost"} THEN [accepted EXCEPT ![m] = @ + 1] ELSE accepted
          /\ refused' = IF r = "refused" THEN refused \cup {m} ELSE refused
    /\ UNCHANGED <<service, log, subscriber, answer, crashes>>

\* The container dies and is restarted: what is pending in the NATS client is
\* gone, calls end in errors, a post on its way may be accepted.
Crash ==
    /\ service # "down"
    /\ crashes < MaxCrashes
    /\ service' = "down"
    /\ queue' = <<>>
    /\ callback' = 0
    /\ at' = [m \in Mail |-> IF at[m] \in {"render", "post"} THEN "err" ELSE at[m]]
    /\ \E sent \in SUBSET {m \in Mail : at[m] = "post"} :
          /\ accepted' = [m \in Mail |-> IF m \in sent THEN accepted[m] + 1 ELSE accepted[m]]
          /\ posted' = IF callback # 0 /\ log[callback] \in sent
                       THEN Append(posted, callback) ELSE posted
    /\ crashes' = crashes + 1
    /\ UNCHANGED <<log, answer, refused>>

SendEmail(m) == RenderTemplates(m) \/ Send(m)

Next ==
    \/ StartEmailSubscriber \/ InitMailGRPC \/ TakeJob \/ CallbackReturns \/ Crash
    \/ \E j \in Job : Publish(j) \/ PublishFails(j)
    \/ \E d \in Direct : CallSendEmail(d) \/ Respond(d) \/ GiveUp(d)
    \/ \E m \in Mail : SendEmail(m)

\* The subscriber's goroutine runs, and SendGrid answers or the connection to it
\* breaks: the code sets no timeout of its own.
Fairness ==
    /\ WF_vars(TakeJob)
    /\ WF_vars(CallbackReturns)
    /\ \A m \in Mail : WF_vars(SendEmail(m))

Spec == Init /\ [][Next]_vars /\ Fairness

-----------------------------------------------------------------------------
(* Properties. *)

\* Nobody gets an email twice, also when SendGrid's answer is lost or the mail
\* service dies while posting: no step of the code posts a second time.
AtMostOnce == \A m \in Mail : accepted[m] <= 1

\* A client of the gRPC port that is told Ok has its email seen by SendGrid.
\* (Accepted it need not be.)
OkWasAnswered ==
    \A d \in Direct : answer[d] = "ok" => accepted[d] = 1 \/ d \in refused

\* A job brought to the mail service is done with at some time: an email that
\* cannot be rendered or is refused does not hold up those behind it.
JobsAreHandled ==
    \A k \in 1..Cardinality(Job) :
        k \in Range(queue) \cup {callback} ~> k \notin Range(queue) \cup {callback}

\* The jobs seen as a feed with SendGrid as its reader: each is posted at most
\* once, and in the order in which they were published.
Feed == INSTANCE LossyFeed WITH
            Message <- Job,
            Reader <- {"SendGrid"},
            feed <- [r \in {"SendGrid"} |-> posted]

\* Publishers, NATS and the mail service implement the feed, across restarts.
RefinesFeed == Feed!FeedSpec
==============================================================================
