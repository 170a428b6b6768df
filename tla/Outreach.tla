------------------------------ MODULE Outreach ------------------------------
(***************************************************************************)
(* Outreach mails (api/adapters/outreach.py, api/outreach/router.py): one  *)
(* draft of a project, the editors who change, confirm and send it, the    *)
(* job that mails it (worker_external.task_send_outreach) and the retries  *)
(* and cancels of that job.                                                *)
(*                                                                         *)
(* The draft lives in a file that is written under the project lock, the   *)
(* job in the database, the mail in a server that keeps no idempotency     *)
(* key: no transaction spans two of them, and a worker may die between any *)
(* two steps.  A mail cannot be called back, so what matters is that each  *)
(* one says what somebody confirmed and that none goes out twice.          *)
(***************************************************************************)
EXTENDS Naturals, Sequences, FiniteSets

CONSTANTS
    Editors,       \* the users at their pages
    Mailers,       \* the worker slots
    Letters,       \* what a draft may say
    MaxRevision,   \* bound: edits of the draft
    MaxSendJobs,   \* bound: rows of jobs
    Tries,         \* MAX_JOB_ATTEMPTS
    Mishaps        \* bound: what may go wrong, one record of counts per instance

ASSUME OutreachAssumption ==
    /\ MaxRevision \in Nat \ {0} /\ MaxSendJobs \in Nat \ {0} /\ Tries \in Nat \ {0}
    /\ "" \notin Letters /\ "free" \notin Mailers /\ "dead" \notin Mailers
    /\ \A m \in Mishaps : m \in [crash : Nat, smtp : Nat, mail : Nat, cancel : Nat, rival : Nat, access : Nat]

VARIABLES
    draft,     \* the entry of outreach/state.json
    page,      \* per editor: the revision and text on the screen
    step,      \* per editor: how far its request to send or retry has come
    smtp,      \* the IntegrationCredential row of the tenant
    paid,      \* check_product_access passes
    sends,     \* jobs of the project
    posted,    \* messages of the broker
    mailer,    \* per worker slot: the run of task_send_outreach
    key,       \* who holds the project lock
    out,       \* history: the mails the server accepted, each with its confirmation
    sures,     \* history: what the editor saw who confirmed
    lost,      \* history: runs that died with the draft in sending
    spare      \* what may still go wrong

outreachVars == <<draft, page, step, smtp, paid, sends, posted, mailer, key, out, sures, lost, spare>>

NoDraft == [status |-> "none", revision |-> 0, text |-> "", sure |-> 0,
            sureRevision |-> 0, sureText |-> "", leased |-> FALSE, error |-> ""]
NoPage == [revision |-> 0, text |-> ""]
NoSmtp == [set |-> FALSE, user |-> FALSE, password |-> FALSE]
Resting == [at |-> "rest", job |-> 0, revision |-> 0, retry |-> FALSE]
Waiting == [at |-> "wait", job |-> 0, sure |-> 0, text |-> "", ends |-> ""]

OutreachInit ==
    /\ draft = NoDraft
    /\ page = [e \in Editors |-> NoPage]
    /\ step = [e \in Editors |-> Resting]
    /\ smtp = [set |-> TRUE, user |-> TRUE, password |-> TRUE]
    /\ paid = TRUE
    /\ sends = <<>> /\ posted = {}
    /\ mailer = [w \in Mailers |-> Waiting]
    /\ key = "free"
    /\ out = <<>> /\ sures = <<>> /\ lost = 0
    /\ spare \in Mishaps

Goes(what) == spare[what] > 0 /\ spare' = [spare EXCEPT ![what] = @ - 1]
Running == {i \in DOMAIN sends : sends[i].status \in {"queued", "running"}}
SetJob(i, status) == sends' = [sends EXCEPT ![i].status = status]

-----------------------------------------------------------------------------
(* The draft *)

\* _clean_email, _clean_subject, _clean_body
Clean(text) == text \in Letters

SendingLeaseActive(d) == d.status = "sending" /\ d.leased

Fallen(d, why) == [d EXCEPT !.status = "failed", !.error = why]
RestoredAfterQueueFailure(d, revision) ==
    IF d.status = "queued" /\ d.sureRevision = revision THEN Fallen(d, "worker_unavailable") ELSE d
QueuedFailed(d, why) == IF d.status = "queued" THEN Fallen(d, why) ELSE d
SendingFailed(d, why) == IF d.status = "sending" THEN Fallen(d, why) ELSE d

\* create_draft: a ticket that is not offsite has nobody to write to.
Drafted(kind, text) ==
    IF kind = "offsite" /\ Clean(text)
    THEN {[NoDraft EXCEPT !.status = "draft", !.revision = 1, !.text = text]} ELSE {}

CreateDraft(e, kind, text) ==
    /\ draft = NoDraft /\ step[e] = Resting /\ key = "free"
    /\ draft' \in Drafted(kind, text)
    /\ UNCHANGED <<page, step, smtp, paid, sends, posted, mailer, key, out, sures, lost, spare>>

\* outreach_overview: an owner's page first gives up the sends whose lease ended.
ExpireStaleSending(d) ==
    IF d.status = "sending" /\ ~SendingLeaseActive(d) THEN Fallen(d, "send_unknown_after_lease") ELSE d

Overview(e, owner) ==
    /\ step[e] = Resting /\ draft # NoDraft
    /\ owner => key = "free"
    /\ draft' = IF owner THEN ExpireStaleSending(draft) ELSE draft
    /\ page' = [page EXCEPT ![e] = [revision |-> draft.revision, text |-> draft.text]]
    /\ UNCHANGED <<step, smtp, paid, sends, posted, mailer, key, out, sures, lost, spare>>

Editable(d) == d.status \in {"draft", "failed"}

\* update_draft: an edit takes back what was confirmed.
Edited(d, revision, text) ==
    IF Editable(d) /\ d.revision = revision /\ Clean(text)
    THEN {[NoDraft EXCEPT !.status = "draft", !.revision = revision + 1, !.text = text]} ELSE {}

UpdateDraft(e, text) ==
    /\ step[e] = Resting /\ key = "free" /\ draft.revision < MaxRevision
    /\ draft' \in Edited(draft, page[e].revision, text)
    /\ page' = [page EXCEPT ![e] = [revision |-> draft'.revision, text |-> text]]
    /\ UNCHANGED <<step, smtp, paid, sends, posted, mailer, key, out, sures, lost, spare>>

Queued(d, n) == [d EXCEPT !.status = "queued", !.sure = n, !.sureRevision = d.revision,
                          !.sureText = d.text, !.error = ""]
\* confirm_and_queue: what the draft becomes, or nothing when it refuses
Confirmed(d, revision, n) == IF Editable(d) /\ d.revision = revision THEN {Queued(d, n)} ELSE {}

-----------------------------------------------------------------------------
(* SMTP: a tenant's row; a password that is left out keeps the old one. *)

ConfigureSmtp(user, password) ==
    /\ ~smtp.set /\ Goes("smtp")
    /\ LET kept == password \/ smtp.password
       IN  /\ user => kept
           /\ smtp' = [set |-> TRUE, user |-> user, password |-> kept]
    /\ UNCHANGED <<draft, page, step, paid, sends, posted, mailer, key, out, sures, lost>>

DeleteSmtp ==
    /\ smtp.set /\ Goes("smtp")
    /\ smtp' = NoSmtp
    /\ UNCHANGED <<draft, page, step, paid, sends, posted, mailer, key, out, sures, lost>>

\* The subscription or the trial of the tenant ends, or it subscribes again.
Subscription ==
    /\ Goes("access")
    /\ paid' = ~paid
    /\ UNCHANGED <<draft, page, step, smtp, sends, posted, mailer, key, out, sures, lost>>

-----------------------------------------------------------------------------
(* send_outreach_draft, in the steps between which others may come *)

Send(e) ==
    /\ step[e] = Resting /\ page[e].revision > 0
    /\ paid /\ smtp.set /\ Running = {}
    /\ step' = [step EXCEPT ![e] = [Resting EXCEPT !.at = "confirm", !.revision = page[e].revision]]
    /\ UNCHANGED <<draft, page, smtp, paid, sends, posted, mailer, key, out, sures, lost, spare>>

\* confirm_and_queue under the project lock, or its refusal
Confirm(e) ==
    /\ step[e].at = "confirm"
    /\ IF key = "free" /\ Confirmed(draft, step[e].revision, Len(sures) + 1) # {}
       THEN /\ draft' \in Confirmed(draft, step[e].revision, Len(sures) + 1)
            /\ sures' = Append(sures, page[e].text)
            /\ step' = [step EXCEPT ![e].at = "insert"]
       ELSE /\ step' = [step EXCEPT ![e] = Resting]
            /\ UNCHANGED <<draft, sures>>
    /\ UNCHANGED <<page, smtp, paid, sends, posted, mailer, key, out, lost, spare>>

NewSend(attempt) == [action |-> "outreach_send", status |-> "queued", attempt |-> attempt,
                     cancel |-> FALSE, known |-> FALSE]

\* The row is inserted without a savepoint: when another job took the project in
\* between, uq_jobs_project_active raises and the request dies with the draft queued.
InsertSend(e) ==
    /\ step[e].at = "insert"
    /\ IF Running = {}
       THEN /\ Len(sends) < MaxSendJobs
            /\ sends' = Append(sends, NewSend(1))
            /\ step' = [step EXCEPT ![e].at = "publish", ![e].job = Len(sends) + 1]
       ELSE /\ step' = [step EXCEPT ![e] = Resting]
            /\ UNCHANGED sends
    /\ UNCHANGED <<draft, page, smtp, paid, posted, mailer, key, out, sures, lost, spare>>

\* retry_project_job: the refusals of a source, then the row
Retry(e, i) ==
    /\ step[e] = Resting
    /\ sends[i].action = "outreach_send" /\ sends[i].status \in {"failed", "canceled"}
    /\ sends[i].attempt < Tries /\ Running = {} /\ paid
    /\ Len(sends) < MaxSendJobs
    /\ sends' = Append(sends, NewSend(sends[i].attempt + 1))
    /\ step' = [step EXCEPT ![e] = [Resting EXCEPT !.at = "publish", !.job = Len(sends) + 1, !.retry = TRUE]]
    /\ UNCHANGED <<draft, page, smtp, paid, posted, mailer, key, out, sures, lost, spare>>

\* The message is out before its id is stored: a worker may take it first.
PublishSend(e) ==
    /\ step[e].at = "publish"
    /\ posted' = posted \cup {[job |-> step[e].job, again |-> FALSE]}
    /\ step' = [step EXCEPT ![e].at = "store"]
    /\ UNCHANGED <<draft, page, smtp, paid, sends, mailer, key, out, sures, lost, spare>>

StoreTask(e) ==
    /\ step[e].at = "store"
    /\ sends' = [sends EXCEPT ![step[e].job].known = TRUE]
    /\ step' = [step EXCEPT ![e] = Resting]
    /\ UNCHANGED <<draft, page, smtp, paid, posted, mailer, key, out, sures, lost, spare>>

\* The broker refuses: the job fails at once, the draft of a send follows in a step
\* of its own and the draft of a retry stays queued.
PublishFails(e) ==
    /\ step[e].at = "publish" /\ Goes("mail")
    /\ SetJob(step[e].job, "failed")
    /\ step' = [step EXCEPT ![e] = IF @.retry THEN Resting ELSE [@ EXCEPT !.at = "restore"]]
    /\ UNCHANGED <<draft, page, smtp, paid, posted, mailer, key, out, sures, lost>>

Restore(e) ==
    /\ step[e].at = "restore"
    /\ draft' = IF key = "free" THEN RestoredAfterQueueFailure(draft, step[e].revision) ELSE draft
    /\ step' = [step EXCEPT ![e] = Resting]
    /\ UNCHANGED <<page, smtp, paid, sends, posted, mailer, key, out, sures, lost, spare>>

\* The API process dies in the middle of a request.
RequestDies(e) ==
    /\ step[e] # Resting /\ Goes("crash")
    /\ step' = [step EXCEPT ![e] = Resting]
    /\ UNCHANGED <<draft, page, smtp, paid, sends, posted, mailer, key, out, sures, lost>>

\* cancel_project_job: a queued job ends here, a running one is asked to.
CancelSend(i) ==
    /\ sends[i].status \in {"queued", "running"} /\ sends[i].action = "outreach_send"
    /\ Goes("cancel")
    /\ sends' = IF sends[i].status = "queued" THEN [sends EXCEPT ![i].status = "canceled"]
                                             ELSE [sends EXCEPT ![i].cancel = TRUE]
    /\ UNCHANGED <<draft, page, step, smtp, paid, posted, mailer, key, out, sures, lost>>

\* A job of another action takes the project's slot and ends.
RivalStarts ==
    /\ Running = {} /\ Len(sends) < MaxSendJobs /\ Goes("rival")
    /\ sends' = Append(sends, [NewSend(1) EXCEPT !.action = "sample"])
    /\ UNCHANGED <<draft, page, step, smtp, paid, posted, mailer, key, out, sures, lost>>
RivalEnds(i) ==
    /\ sends[i].action = "sample" /\ sends[i].status = "queued"
    /\ SetJob(i, "done")
    /\ UNCHANGED <<draft, page, step, smtp, paid, posted, mailer, key, out, sures, lost, spare>>

-----------------------------------------------------------------------------
(* task_send_outreach *)

\* _job_status.prepare: what the run does with the row its message names
Redelivered(m) == sends[m.job].status = "running" /\ m.again /\ sends[m.job].known

Receive(w, m) ==
    LET job == sends[m.job]
        attempt == IF Redelivered(m) THEN job.attempt + 1 ELSE job.attempt
        free == job.status = "queued" \/ Redelivered(m)
    IN  /\ mailer[w] = Waiting /\ m \in posted
        /\ posted' = posted \ {m}
        /\ \/ /\ free /\ attempt <= Tries /\ paid
              /\ sends' = [sends EXCEPT ![m.job] = [job EXCEPT !.status = "running", !.attempt = attempt]]
              /\ mailer' = [mailer EXCEPT ![w] = [Waiting EXCEPT !.at = "lock", !.job = m.job]]
           \/ /\ free /\ (attempt > Tries \/ ~paid)
              /\ SetJob(m.job, "failed")
              /\ UNCHANGED mailer
           \/ ~free /\ UNCHANGED <<sends, mailer>>
        /\ UNCHANGED <<draft, page, step, smtp, paid, key, out, sures, lost, spare>>

\* A dead run's key lives on for PROJECT_LOCK_TTL_SECONDS (60), a run waits ten.
EnterLock(w) ==
    /\ mailer[w].at = "lock" /\ key = "free"
    /\ key' = w
    /\ mailer' = [mailer EXCEPT ![w].at = "smtp"]
    /\ UNCHANGED <<draft, page, step, smtp, paid, sends, posted, out, sures, lost, spare>>
LockTimeout(w) ==
    /\ mailer[w].at = "lock" /\ key # "free"
    /\ SetJob(mailer[w].job, "failed")
    /\ mailer' = [mailer EXCEPT ![w] = Waiting]
    /\ UNCHANGED <<draft, page, step, smtp, paid, posted, key, out, sures, lost, spare>>
LockExpires ==
    /\ key = "dead" /\ key' = "free"
    /\ UNCHANGED <<draft, page, step, smtp, paid, sends, posted, mailer, out, sures, lost, spare>>

\* The body ends: the lock is given back, then the row is written.
Leave(w, status) ==
    /\ mailer' = [mailer EXCEPT ![w] = [Waiting EXCEPT !.at = "end", !.job = mailer[w].job, !.ends = status]]
    /\ key' = "free"

\* mark_complete, mark_canceled and mark_failed of _job_status: only a failure is
\* written over a row that has ended.
Settle(w) ==
    /\ mailer[w].at = "end"
    /\ LET job == sends[mailer[w].job]
       IN  sends' = IF mailer[w].ends = "failed" THEN [sends EXCEPT ![mailer[w].job].status = "failed"]
                    ELSE IF job.status \in {"done", "canceled"} THEN sends
                    ELSE [sends EXCEPT ![mailer[w].job].status = IF job.cancel THEN "canceled" ELSE mailer[w].ends]
    /\ mailer' = [mailer EXCEPT ![w] = Waiting]
    /\ UNCHANGED <<draft, page, step, smtp, paid, posted, key, out, sures, lost, spare>>

ReadSmtp(w) ==
    /\ mailer[w].at = "smtp"
    /\ \/ /\ smtp.set
          /\ mailer' = [mailer EXCEPT ![w].at = "claim"]
          /\ UNCHANGED <<draft, key>>
       \/ /\ ~smtp.set
          /\ draft' = QueuedFailed(draft, "smtp_not_configured")
          /\ Leave(w, "failed")
    /\ UNCHANGED <<page, step, smtp, paid, sends, posted, out, sures, lost, spare>>

\* A plausible bug: a draft whose send failed may be claimed again by a retry.
ClaimableAgain(d) ==
    /\ d.status \in {"queued", "failed"} \/ (d.status = "sending" /\ ~SendingLeaseActive(d))
    /\ d.sureRevision = d.revision /\ d.sureText = d.text
\* claim_for_sending: queued, or left in sending by a run whose lease ended
Claimable(d) ==
    /\ d.status = "queued" \/ (d.status = "sending" /\ ~SendingLeaseActive(d))
    /\ d.sureRevision = d.revision /\ d.sureText = d.text

\* Whatever stops the run before the mail is out makes the draft fail, also when
\* the draft is in sending because of another run.
Stopped(d, why) == QueuedFailed(SendingFailed(d, why), why)

ClaimForSending(w) ==
    /\ mailer[w].at = "claim"
    /\ \/ /\ Claimable(draft)
          /\ draft' = [draft EXCEPT !.status = "sending", !.leased = TRUE]
          /\ mailer' = [mailer EXCEPT ![w].at = "mail", ![w].sure = draft.sure, ![w].text = draft.text]
          /\ UNCHANGED key
       \/ /\ ~Claimable(draft)
          /\ draft' = Stopped(draft, "outreach_draft_not_claimed")
          /\ Leave(w, "failed")
       \/ /\ sends[mailer[w].job].cancel
          /\ draft' = Stopped(draft, "canceled_by_user")
          /\ Leave(w, "canceled")
    /\ UNCHANGED <<page, step, smtp, paid, sends, posted, out, sures, lost, spare>>

\* send_smtp: the server takes the mail, takes it and does not answer, or refuses it.
SendSmtp(w) ==
    /\ mailer[w].at = "mail"
    /\ \/ /\ out' = Append(out, [sure |-> mailer[w].sure, text |-> mailer[w].text])
          /\ mailer' = [mailer EXCEPT ![w].at = "mark"]
          /\ UNCHANGED <<draft, key, spare>>
       \/ /\ Goes("mail")
          /\ out' \in {out, Append(out, [sure |-> mailer[w].sure, text |-> mailer[w].text])}
          /\ draft' = Stopped(draft, "outreach_smtp_send_failed")
          /\ Leave(w, "failed")
    /\ UNCHANGED <<page, step, smtp, paid, sends, posted, sures, lost>>

MarkSent(w) ==
    /\ mailer[w].at = "mark"
    /\ IF draft.status = "sending"
       THEN draft' = [draft EXCEPT !.status = "sent", !.error = ""] /\ Leave(w, "done")
       ELSE Leave(w, "failed") /\ UNCHANGED draft
    /\ UNCHANGED <<page, step, smtp, paid, sends, posted, out, sures, lost, spare>>

\* The worker process dies; the message comes again, the lock's key stays behind.
MailerDies(w) ==
    /\ mailer[w] # Waiting /\ Goes("crash")
    /\ posted' = posted \cup {[job |-> mailer[w].job, again |-> TRUE]}
    /\ mailer' = [mailer EXCEPT ![w] = Waiting]
    /\ key' = IF key = w THEN "dead" ELSE key
    /\ lost' = IF mailer[w].at \in {"mail", "mark"} THEN lost + 1 ELSE lost
    /\ UNCHANGED <<draft, page, step, smtp, paid, sends, out, sures>>

\* SENDING_LEASE_SECONDS (900) pass: a live send takes a few timeouts of 20 seconds.
LeaseEnds ==
    /\ SendingLeaseActive(draft)
    /\ \A w \in Mailers : mailer[w].at \notin {"mail", "mark"}
    /\ draft' = [draft EXCEPT !.leased = FALSE]
    /\ UNCHANGED <<page, step, smtp, paid, sends, posted, mailer, key, out, sures, lost, spare>>

\* reclaim_stale_jobs: nobody runs the job and no message of it is left.
Reclaim(i) ==
    /\ sends[i].status \in {"queued", "running"} /\ sends[i].action = "outreach_send"
    /\ \A w \in Mailers : mailer[w].job # i
    /\ \A m \in posted : m.job # i
    /\ \A e \in Editors : step[e].job # i
    /\ SetJob(i, IF sends[i].cancel THEN "canceled" ELSE "failed")
    /\ UNCHANGED <<draft, page, step, smtp, paid, posted, mailer, key, out, sures, lost, spare>>

OutreachNext ==
    \/ \E e \in Editors : \E text \in Letters \cup {""}, kind \in {"offsite", "page"} : CreateDraft(e, kind, text)
    \/ \E e \in Editors, owner \in BOOLEAN : Overview(e, owner)
    \/ \E e \in Editors, text \in Letters \cup {""} : UpdateDraft(e, text)
    \/ \E user, password \in BOOLEAN : ConfigureSmtp(user, password)
    \/ DeleteSmtp \/ Subscription \/ RivalStarts \/ LockExpires \/ LeaseEnds
    \/ \E e \in Editors : \/ Send(e) \/ Confirm(e) \/ InsertSend(e) \/ PublishSend(e) \/ StoreTask(e)
                          \/ PublishFails(e) \/ Restore(e) \/ RequestDies(e)
                          \/ \E i \in DOMAIN sends : Retry(e, i)
    \/ \E i \in DOMAIN sends : CancelSend(i) \/ RivalEnds(i) \/ Reclaim(i)
    \/ \E w \in Mailers, m \in posted : Receive(w, m)
    \/ \E w \in Mailers : \/ EnterLock(w) \/ LockTimeout(w) \/ ReadSmtp(w) \/ ClaimForSending(w)
                          \/ SendSmtp(w) \/ MarkSent(w) \/ Settle(w) \/ MailerDies(w)

OutreachSpec == OutreachInit /\ [][OutreachNext]_outreachVars

-----------------------------------------------------------------------------
OutreachTypeOK ==
    /\ draft.status \in {"none", "draft", "queued", "sending", "sent", "failed"}
    /\ draft.revision \in 0 .. MaxRevision /\ draft.text \in Letters \cup {""}
    /\ draft.sure \in 0 .. Len(sures)
    /\ smtp \in [set : BOOLEAN, user : BOOLEAN, password : BOOLEAN] /\ (smtp.user => smtp.password)
    /\ \A e \in Editors : step[e].at \in {"rest", "confirm", "insert", "publish", "store", "restore"}
    /\ \A w \in Mailers : mailer[w].at \in {"wait", "lock", "smtp", "claim", "mail", "mark", "end"}
    /\ key \in Mailers \cup {"free", "dead"}
    /\ \A i \in DOMAIN sends : sends[i].attempt \in 1 .. Tries
    /\ Cardinality(Running) <= 1

\* Every mail that went out says what the editor who confirmed it had on the
\* screen, however edits, retries and redelivered runs come in between
\* (confirm_and_queue's revision and content hash, and claim_for_sending).
MailsAreConfirmed == \A n \in DOMAIN out : out[n].sure > 0 /\ out[n].text = sures[out[n].sure]

\* One confirmation sends one mail: a second one takes a worker that died while
\* it was sending, and the end of its lease; a retried job never sends again
\* what an earlier attempt gave up on (claim_for_sending, mark_failed).
OneMailPerConfirmation ==
    \A s \in DOMAIN sures : Cardinality({n \in DOMAIN out : out[n].sure = s}) <= 1 + lost

\* What leaves is what was confirmed, as often as it was confirmed.
MailsFollowConfirmations == MailsAreConfirmed /\ OneMailPerConfirmation
=============================================================================
