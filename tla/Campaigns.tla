------------------------------- MODULE Campaigns --------------------------------
(***************************************************************************)
(* One e-mail campaign: staff edit, test, approve, place and cancel it     *)
(* (multichannel_campaign_service.ts, campaign_calendar_service.ts), and   *)
(* the workers of every API process release it and send it                 *)
(* (campaign_dispatch_worker.ts).                                          *)
(*                                                                         *)
(* Every staff operation reads the whole row, decides, and saves the whole *)
(* row: TypeORM's save writes each column in which the object in memory    *)
(* differs from the row, so the row becomes what was read, with the        *)
(* operation's change.  The content lives in rows of its own.              *)
(***************************************************************************)
EXTENDS Naturals, FiniteSets

CONSTANTS
    Marketers,      \* staff
    Author,         \* the member of Marketers who created it
    Senders,        \* API processes, each with its dispatch worker
    Passengers,     \* the audience
    NoOne,
    MaxEdits        \* bound on the edits of the content

ASSUME CampaignAssumption ==
    /\ Author \in Marketers /\ NoOne \notin Marketers \cup Senders \cup Passengers
    /\ MaxEdits \in Nat

VARIABLES
    campaign,   \* the row
    content,    \* version of the content of its channels
    desk,       \* operation in flight of each member of staff
    mail,       \* status of each recipient row; "none" if there is no row
    worker,     \* what each worker is doing
    inbox,      \* the messages the provider accepted
    twice,      \* history: who got a second message
    doubtful,   \* history: whose message nobody wrote down as sent, or was in
                \* the hands of two workers
    overlapped  \* history: an operation saved while another was in flight

campaignVars ==
    <<campaign, content, desk, mail, worker, inbox, twice, doubtful, overlapped>>

Statuses == {"draft", "awaiting_approval", "approved", "scheduled", "sending",
             "completed", "cancelled"}
Terminal == {"completed", "cancelled"}
Operations == {"edit", "test", "requestApproval", "approve", "reschedule", "cancel"}
Row == [status : Statuses, tested : BOOLEAN, approver : Marketers \cup {NoOne},
        approved : 0..MaxEdits, placed : BOOLEAN,
        begun : BOOLEAN, lease : Senders \cup {NoOne}]
NewRow == [status |-> "draft", tested |-> FALSE, approver |-> NoOne,
           approved |-> 0, placed |-> FALSE, begun |-> FALSE, lease |-> NoOne]
NoTask == [at |-> "idle", seen |-> NewRow]
Resting == [at |-> "idle", todo |-> {}, to |-> NoOne, text |-> 0, ok |-> TRUE]

CampaignTypeOK ==
    /\ campaign \in Row
    /\ content \in 0..MaxEdits
    /\ desk \in [Marketers -> [at : {"idle", "read", "written"}, seen : Row]]
    /\ mail \in [Passengers -> {"none", "queued", "sent", "skipped", "failed"}]
    /\ worker \in [Senders -> [at : {"idle", "build", "batch", "record"},
                               todo : SUBSET Passengers, to : Passengers \cup {NoOne},
                               text : 0..MaxEdits, ok : BOOLEAN]]
    /\ \A m \in inbox : m.to \in Passengers /\ m.text \in 0..MaxEdits
    /\ twice \subseteq Passengers /\ doubtful \subseteq Passengers \cup {NoOne}
    /\ overlapped \in BOOLEAN

\* A draft, or a campaign that was scheduled before these processes started.
ScheduledRow(s) ==
    [NewRow EXCEPT !.status = "scheduled", !.tested = TRUE, !.approver = s,
                   !.placed = TRUE]

CampaignInit ==
    /\ campaign \in {NewRow} \cup {ScheduledRow(s) : s \in Marketers \ {Author}}
    /\ content = 0
    /\ desk = [s \in Marketers |-> NoTask]
    /\ mail = [u \in Passengers |-> "none"]
    /\ worker = [w \in Senders |-> Resting]
    /\ inbox = {} /\ twice = {} /\ doubtful = {}
    /\ overlapped = FALSE

-----------------------------------------------------------------------------
(* The operations of the staff.                                            *)

RESCHEDULABLE == {"scheduled", "approved", "draft", "awaiting_approval"}

\* Mutant: an author approves their own.
MayApproveOwn(s, row) == row.status = "awaiting_approval" /\ row.tested

\* A tested campaign is approved by somebody other than its author.
mayApprove(s, row) ==
    row.status = "awaiting_approval" /\ s # Author /\ row.tested

\* What each operation asks of the row it read.
Allowed(op, s, row) ==
    CASE op = "edit" -> row.status \notin Terminal \cup {"sending"}
      [] op = "test" -> TRUE
      [] op = "requestApproval" -> row.status = "draft"
      [] op = "approve" -> mayApprove(s, row)
      [] op = "reschedule" -> row.status \in RESCHEDULABLE /\ ~row.begun
      [] op = "cancel" -> row.status \notin Terminal

\* A material change takes a campaign that was read as being on its way to
\* passengers back to draft.
invalidateApproval(row) ==
    IF row.status \in {"approved", "scheduled", "awaiting_approval"}
    THEN [row EXCEPT !.status = "draft", !.approver = NoOne, !.approved = 0,
                     !.placed = FALSE]
    ELSE row

\* The row an operation saves, from the row it read.
Saved(op, s, row) ==
    CASE op = "edit" -> invalidateApproval(row)
      [] op = "test" -> [row EXCEPT !.tested = TRUE]
      [] op = "requestApproval" -> [row EXCEPT !.status = "awaiting_approval"]
      [] op = "approve" ->
             [row EXCEPT !.status = "approved", !.approver = s, !.approved = content]
      [] op = "reschedule" ->
             [row EXCEPT !.placed = TRUE,
                         !.status = IF @ = "approved" THEN "scheduled" ELSE @]
      [] op = "cancel" -> [row EXCEPT !.status = "cancelled"]

\* The write of s meets an operation of somebody else, or a row that changed.
Overlaps(s) ==
    \/ \E t \in Marketers \ {s} : desk[t].at # "idle"
    \/ campaign # desk[s].seen

\* An operation reads the row.  Which operation it is shows when it writes.
Reads(s) ==
    /\ desk[s].at = "idle"
    /\ desk' = [desk EXCEPT ![s] = [at |-> "read", seen |-> campaign]]
    /\ UNCHANGED <<campaign, content, mail, worker, inbox, twice, doubtful, overlapped>>

\* setChannel saves the channel's row first, ...
setChannel(s) ==
    /\ desk[s].at = "read" /\ Allowed("edit", s, desk[s].seen)
    /\ content < MaxEdits
    /\ content' = content + 1
    /\ desk' = [desk EXCEPT ![s].at = "written"]
    /\ overlapped' = (overlapped \/ Overlaps(s))
    /\ UNCHANGED <<campaign, mail, worker, inbox, twice, doubtful>>

\* ... then the campaign, only to take it back to draft.
SetChannelSettles(s) ==
    /\ desk[s].at = "written"
    /\ campaign' = IF invalidateApproval(desk[s].seen) # desk[s].seen
                   THEN invalidateApproval(desk[s].seen) ELSE campaign
    /\ desk' = [desk EXCEPT ![s] = NoTask]
    /\ overlapped' = (overlapped \/ Overlaps(s))
    /\ UNCHANGED <<content, mail, worker, inbox, twice, doubtful>>

\* update, markTested, requestApproval, approve, reschedule and cancel.
Saves(s) == \E op \in Operations :
    /\ desk[s].at = "read" /\ Allowed(op, s, desk[s].seen)
    /\ campaign' = Saved(op, s, desk[s].seen)
    /\ desk' = [desk EXCEPT ![s] = NoTask]
    /\ overlapped' = (overlapped \/ Overlaps(s))
    /\ UNCHANGED <<content, mail, worker, inbox, twice, doubtful>>

\* An operation is refused, or given up.
Leaves(s) ==
    /\ desk[s].at = "read"
    /\ desk' = [desk EXCEPT ![s] = NoTask]
    /\ UNCHANGED <<campaign, content, mail, worker, inbox, twice, doubtful, overlapped>>

-----------------------------------------------------------------------------
(* The dispatch worker.                                                    *)

\* Mutant: whatever is placed in the calendar goes when its time comes.
PromotePlaced(w) ==
    /\ worker[w].at = "idle"
    /\ campaign.status \notin Terminal \cup {"sending"} /\ campaign.placed
    /\ campaign' = [campaign EXCEPT !.status = "sending", !.begun = TRUE, !.lease = w]
    /\ overlapped' = (overlapped \/ \E s \in Marketers : desk[s].at # "idle")
    /\ UNCHANGED <<content, desk, mail, worker, inbox, twice, doubtful>>

\* The conditional UPDATE that releases a campaign whose time has come.
promoteDue(w) ==
    /\ worker[w].at = "idle"
    /\ campaign.status = "scheduled" /\ campaign.placed
    /\ campaign.approver # NoOne
    /\ campaign' = [campaign EXCEPT !.status = "sending", !.begun = TRUE, !.lease = w]
    /\ overlapped' = (overlapped \/ \E s \in Marketers : desk[s].at # "idle")
    /\ UNCHANGED <<content, desk, mail, worker, inbox, twice, doubtful>>

\* The lease is taken when it is free, lapsed or already this worker's; the
\* recipients are created only if there is none yet.
progressSending(w) ==
    /\ worker[w].at = "idle"
    /\ campaign.status = "sending" /\ campaign.lease \in {w, NoOne}
    /\ campaign' = [campaign EXCEPT !.lease = w]
    /\ worker' = [worker EXCEPT ![w].at = "build", ![w].todo =
                    IF \A u \in Passengers : mail[u] = "none" THEN Passengers ELSE {}]
    /\ UNCHANGED <<content, desk, mail, inbox, twice, doubtful, overlapped>>

\* The lease is not renewed while a batch runs.
LeaseLapses ==
    /\ campaign.lease # NoOne
    /\ campaign' = [campaign EXCEPT !.lease = NoOne]
    /\ UNCHANGED <<content, desk, mail, worker, inbox, twice, doubtful, overlapped>>

\* One recipient row; the unique index ignores one that exists.
ensureRecipients(w) ==
    /\ worker[w].at = "build"
    /\ \E u \in worker[w].todo :
         /\ mail' = [mail EXCEPT ![u] = IF @ = "none" THEN "queued" ELSE @]
         /\ worker' = [worker EXCEPT ![w].todo = @ \ {u}]
    /\ UNCHANGED <<campaign, content, desk, inbox, twice, doubtful, overlapped>>

\* Completes the campaign when no recipient is queued, if it is still sending.
finishIfDone(w) ==
    /\ worker' = [worker EXCEPT ![w] = Resting]
    /\ campaign' = IF /\ \A u \in Passengers : mail[u] # "queued"
                      /\ campaign.status = "sending"
                   THEN [campaign EXCEPT !.status = "completed", !.lease = NoOne]
                   ELSE campaign

\* Whom a worker will mail, or has mailed and not yet written down.
InHand(w) == CASE worker[w].at = "batch" -> worker[w].todo
               [] worker[w].at = "record" -> worker[w].todo \cup {worker[w].to}
               [] OTHER -> {}

Batch(w, due) ==
    /\ worker[w].at = "build" /\ worker[w].todo = {}
    /\ IF due = {}
       THEN finishIfDone(w)
       ELSE /\ worker' = [worker EXCEPT ![w].at = "batch", ![w].todo = due,
                                        ![w].text = content]
            /\ UNCHANGED campaign
    /\ doubtful' = doubtful \cup (due \cap UNION {InHand(v) : v \in Senders \ {w}})
    /\ UNCHANGED <<content, desk, mail, inbox, twice, overlapped>>

\* Mutant: the batch is whoever has a row, mailed or not.
LoadsEveryRow(w) == Batch(w, {u \in Passengers : mail[u] \in {"queued", "sent"}})

\* The batch: the queued recipients, and the content as it is now.
LoadsBatch(w) == Batch(w, {u \in Passengers : mail[u] = "queued"})

\* The kill switch or the pause is on: the tick ends.
Held(w) ==
    /\ worker[w].at = "build" /\ worker[w].todo = {}
    /\ worker' = [worker EXCEPT ![w] = Resting]
    /\ UNCHANGED <<campaign, content, desk, mail, inbox, twice, doubtful, overlapped>>

\* The recipient is not eligible (any more).
Skips(w) == \E u \in worker[w].todo :
    /\ worker[w].at = "batch"
    /\ mail' = [mail EXCEPT ![u] = "skipped"]
    /\ worker' = [worker EXCEPT ![w].todo = @ \ {u}]
    /\ UNCHANGED <<campaign, content, desk, inbox, twice, doubtful, overlapped>>

\* The provider (external): the key that the worker gives is put into the headers
\* of the message, so that each message handed over is one delivered.  Its answer
\* may be lost: the worker is told it failed.
Mails(w) == \E u \in worker[w].todo, accepted \in BOOLEAN, ok \in BOOLEAN :
    /\ worker[w].at = "batch"
    /\ ok => accepted
    /\ inbox' = IF accepted THEN inbox \cup {[to |-> u, text |-> worker[w].text]} ELSE inbox
    /\ twice' = IF accepted /\ \E m \in inbox : m.to = u THEN twice \cup {u} ELSE twice
    /\ doubtful' = IF accepted /\ ~ok THEN doubtful \cup {u} ELSE doubtful
    /\ worker' = [worker EXCEPT ![w].at = "record", ![w].todo = @ \ {u},
                                ![w].to = u, ![w].ok = ok]
    /\ UNCHANGED <<campaign, content, desk, mail, overlapped>>

\* The outcome is written; a failure that may pass is queued again.
Records(w) ==
    /\ worker[w].at = "record"
    /\ \E outcome \in IF worker[w].ok THEN {"sent"} ELSE {"queued", "failed"} :
         mail' = [mail EXCEPT ![worker[w].to] = outcome]
    /\ worker' = [worker EXCEPT ![w].at = "batch", ![w].to = NoOne, ![w].ok = TRUE]
    /\ UNCHANGED <<campaign, content, desk, inbox, twice, doubtful, overlapped>>

BatchEnds(w) ==
    /\ worker[w].at = "batch" /\ worker[w].todo = {}
    /\ finishIfDone(w)
    /\ UNCHANGED <<content, desk, mail, inbox, twice, doubtful, overlapped>>

\* The worker dies, or the database fails it: what it was about to write is lost.
Dies(w) ==
    /\ worker[w].at # "idle"
    /\ worker' = [worker EXCEPT ![w] = Resting]
    /\ doubtful' = IF worker[w].at = "record" /\ worker[w].ok
                   THEN doubtful \cup {worker[w].to} ELSE doubtful
    /\ UNCHANGED <<campaign, content, desk, mail, inbox, twice, overlapped>>

CampaignNext ==
    \/ LeaseLapses
    \/ \E s \in Marketers :
         Reads(s) \/ setChannel(s) \/ SetChannelSettles(s) \/ Saves(s) \/ Leaves(s)
    \/ \E w \in Senders :
         \/ promoteDue(w) \/ progressSending(w) \/ ensureRecipients(w)
         \/ LoadsBatch(w) \/ Held(w) \/ Skips(w) \/ Mails(w) \/ Records(w)
         \/ BatchEnds(w) \/ Dies(w)

CampaignSpec == CampaignInit /\ [][CampaignNext]_campaignVars

-----------------------------------------------------------------------------
(* Properties                                                              *)

\* A passenger gets one e-mail of a campaign: pauses, crashes, lapsed leases, saves
\* over the row and a second release do not make it two.  What may is an answer
\* that was lost, a message sent and not written down, and a batch that was still
\* under way when another worker loaded it (campaign_dispatch_worker.ts:24-30).
EmailOnce == twice \subseteq doubtful

\* Nothing is sent that was not tested and approved by somebody other than its
\* author, whatever rows the operations saved over each other
\* (multichannel_campaign_service.ts:529).
Reviewed ==
    campaign.status \in {"sending", "completed"} =>
        campaign.tested /\ campaign.approver \notin {NoOne, Author}

\* What passengers get is what was approved: a change made after the approval
\* takes it back.  Two operations that overlap may break it
\* (multichannel_campaign_service.ts:244).
SentAsApproved == ~overlapped => \A m \in inbox : m.text = campaign.approved
===============================================================================
