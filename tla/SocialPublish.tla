--------------------------- MODULE SocialPublish ---------------------------
(***************************************************************************)
(* One social channel of a store and the posts of one product on it        *)
(* (services/api/src/services/social/socialService.ts, types.ts). A job is *)
(* processed by a worker nobody awaits, in the same Node process; nothing  *)
(* takes up a job whose worker died. The only provider there is posts by   *)
(* hand and never fails. A post is known by the job that made it. Tokens,  *)
(* captions, the audit log and the rows of the channel's events are left   *)
(* out.                                                                    *)
(***************************************************************************)
EXTENDS Handlers

CONSTANTS
  Jobs,    \* jobs that may be queued
  NoJob    \* the absence of one

ASSUME SocialAssumption == NoJob \notin Jobs

VARIABLES
  channel,    \* social_connection.status, "none" before it is created
  editable,   \* whether its platform can edit a post
  job,        \* social_publish_job: status, action and external_post_id
  post,       \* social_published_post: external_post_id and last_job_id
  worker,     \* per job: where processPublishJob stands, and the post it holds
  social,     \* per request: where its handler stands
  newest,     \* history: the newest post on the channel
  doubled,    \* history: an update posted the product a second time
  entangled   \* history: workers overlapped, or one did not end

socVars == <<channel, editable, job, post, worker, social, newest, doubled, entangled>>

Post == Jobs \cup {NoJob}
SocialSteps == {"idle", "connect", "revoke", "enqueue"}
WorkerSteps == {"idle", "start", "find", "post", "finish", "record", "log", "fail"}
Ended == {"published", "edit_not_supported", "failed"}

SocTypeOK ==
  /\ channel \in {"none", "pending", "connected", "revoked"}
  /\ editable \in BOOLEAN
  /\ job \in [Jobs -> [status : Ended \cup {"none", "queued", "running"}, update : BOOLEAN,
                       post : Post]]
  /\ post \in [id : Post, job : Post]
  /\ worker \in [Jobs -> [at : WorkerSteps, post : Post]]
  /\ social \in [Requests -> SocialSteps]
  /\ newest \in Post
  /\ doubled \in BOOLEAN
  /\ entangled \in BOOLEAN

SocInit ==
  /\ channel = "none"
  /\ editable \in BOOLEAN
  /\ job = [j \in Jobs |-> [status |-> "none", update |-> FALSE, post |-> NoJob]]
  /\ post = [id |-> NoJob, job |-> NoJob]
  /\ worker = [j \in Jobs |-> [at |-> "idle", post |-> NoJob]]
  /\ social = [r \in Requests |-> "idle"]
  /\ newest = NoJob
  /\ doubled = FALSE
  /\ entangled = FALSE

-----------------------------------------------------------------------------
(* Requests.                                                               *)

SocGoto(r, step) == social' = [social EXCEPT ![r] = step]
Posts == <<job, post, worker, newest, doubled, entangled>>

\* createSocialConnection: the row, a test that always succeeds, the status. A
\* second channel of the name is refused by the unique index, revoked or not.
CreateChannel(r) ==
  /\ social[r] = "idle"
  /\ channel = "none"
  /\ channel' = "pending"
  /\ SocGoto(r, "connect")
  /\ UNCHANGED <<editable, Posts>>

\* testSocialConnection, disconnectSocialConnection: the row, then the status.
ReadChannel(r, step) ==
  /\ social[r] = "idle"
  /\ channel # "none"
  /\ SocGoto(r, step)
  /\ UNCHANGED <<channel, editable, Posts>>

\* Whatever the status is by now.
MarkConnected(r) ==
  /\ social[r] = "connect"
  /\ channel' = "connected"
  /\ SocGoto(r, "idle")
  /\ UNCHANGED <<editable, Posts>>

MarkRevoked(r) ==
  /\ social[r] = "revoke"
  /\ channel' = "revoked"
  /\ SocGoto(r, "idle")
  /\ UNCHANGED <<editable, Posts>>

\* enqueueProductPublishJob looks for a connected channel.
FindChannel(r) ==
  /\ social[r] = "idle"
  /\ channel = "connected"
  /\ SocGoto(r, "enqueue")
  /\ UNCHANGED <<channel, editable, Posts>>

\* A key of the same millisecond is answered with the job there is.
InsertJob(r, j, update) ==
  /\ social[r] = "enqueue"
  /\ job[j].status = "none"
  /\ job' = [job EXCEPT ![j] = [@ EXCEPT !.status = "queued", !.update = update]]
  /\ worker' = [worker EXCEPT ![j] = [@ EXCEPT !.at = "start"]]
  /\ entangled' = (entangled \/ \E k \in Jobs : worker[k].at # "idle")
  /\ SocGoto(r, "idle")
  /\ UNCHANGED <<channel, editable, post, newest, doubled>>

SocAbandon(r) ==
  /\ social[r] # "idle"
  /\ SocGoto(r, "idle")
  /\ UNCHANGED <<channel, editable, Posts>>

-----------------------------------------------------------------------------
(* processPublishJob. It reads the job and the channel, and looks at none  *)
(* of their statuses.                                                      *)

WorkerGoto(j, step) == worker' = [worker EXCEPT ![j] = [@ EXCEPT !.at = step]]

StartJob(j) ==
  /\ worker[j].at = "start"
  /\ job' = [job EXCEPT ![j] = [@ EXCEPT !.status = "running"]]
  /\ WorkerGoto(j, "find")
  /\ UNCHANGED <<channel, editable, post, social, newest, doubled, entangled>>

FindPost(j) ==
  /\ worker[j].at = "find"
  /\ worker' = [worker EXCEPT ![j] = [at |-> "post", post |-> post.id]]
  /\ UNCHANGED <<channel, editable, job, post, social, newest, doubled, entangled>>

\* An update edits the post that was found; everything else posts anew.
PostProduct(j) ==
  /\ worker[j].at = "post"
  /\ IF job[j].update /\ worker[j].post # NoJob
     THEN WorkerGoto(j, "finish") /\ UNCHANGED <<newest, doubled>>
     ELSE /\ worker' = [worker EXCEPT ![j] = [at |-> "finish", post |-> j]]
          /\ newest' = j
          /\ doubled' = (doubled \/ (job[j].update /\ newest # NoJob))
  /\ UNCHANGED <<channel, editable, job, post, social, entangled>>

FinishJob(j) ==
  /\ worker[j].at = "finish"
  /\ job' = [job EXCEPT ![j] =
               [@ EXCEPT !.status = IF editable \/ ~job[j].update
                                    THEN "published" ELSE "edit_not_supported",
                         !.post = worker[j].post]]
  /\ WorkerGoto(j, "record")
  /\ UNCHANGED <<channel, editable, post, social, newest, doubled, entangled>>

\* Mutant: ON CONFLICT DO NOTHING.
RecordFirstPost(j) ==
  /\ worker[j].at = "record"
  /\ post' = IF post.id = NoJob THEN [id |-> worker[j].post, job |-> j] ELSE post
  /\ WorkerGoto(j, "log")
  /\ UNCHANGED <<channel, editable, job, social, newest, doubled, entangled>>

\* ON CONFLICT DO UPDATE.
RecordPost(j) ==
  /\ worker[j].at = "record"
  /\ post' = [id |-> worker[j].post, job |-> j]
  /\ WorkerGoto(j, "log")
  /\ UNCHANGED <<channel, editable, job, social, newest, doubled, entangled>>

LogPost(j) ==
  /\ worker[j].at = "log"
  /\ WorkerGoto(j, "idle")
  /\ UNCHANGED <<channel, editable, job, post, social, newest, doubled, entangled>>

\* A statement of the try block fails; the job fails, even if it has posted.
WorkerFails(j) ==
  /\ worker[j].at \in {"find", "finish", "record", "log"}
  /\ WorkerGoto(j, "fail")
  /\ entangled' = TRUE
  /\ UNCHANGED <<channel, editable, job, post, social, newest, doubled>>

FailJob(j) ==
  /\ worker[j].at = "fail"
  /\ job' = [job EXCEPT ![j] = [@ EXCEPT !.status = "failed"]]
  /\ WorkerGoto(j, "idle")
  /\ UNCHANGED <<channel, editable, post, social, newest, doubled, entangled>>

\* A statement outside of it fails, or the process dies.
WorkerDies(j) ==
  /\ worker[j].at # "idle"
  /\ WorkerGoto(j, "idle")
  /\ entangled' = TRUE
  /\ UNCHANGED <<channel, editable, job, post, social, newest, doubled>>

SocNext ==
  \/ \E r \in Requests :
       \/ CreateChannel(r) \/ ReadChannel(r, "connect") \/ ReadChannel(r, "revoke")
       \/ MarkConnected(r) \/ MarkRevoked(r) \/ FindChannel(r)
       \/ \E j \in Jobs, update \in BOOLEAN : InsertJob(r, j, update)
       \/ SocAbandon(r)
  \/ \E j \in Jobs :
       \/ StartJob(j) \/ FindPost(j) \/ PostProduct(j) \/ FinishJob(j) \/ RecordPost(j)
       \/ LogPost(j) \/ WorkerFails(j) \/ FailJob(j) \/ WorkerDies(j)

SocSpec == SocInit /\ [][SocNext]_socVars

-----------------------------------------------------------------------------
(* Property.                                                               *)

\* The record of what was posted is what a later update goes by. As long as
\* workers take turns and end, an update never posts a product that is posted
\* already, whatever becomes of the channel; and while none is at work the
\* record names the newest post, and a job that knows it.
EditsKeepThePost ==
  ~entangled =>
    /\ ~doubled
    /\ (\A j \in Jobs : worker[j].at = "idle") =>
         /\ post.id = newest
         /\ post.id # NoJob => job[post.job].post = post.id
=============================================================================
