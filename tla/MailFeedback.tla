------------------------------ MODULE MailFeedback ------------------------------
(***************************************************************************)
(* What comes back from sent mail, and what stops more of it, for one      *)
(* passenger: the provider's webhooks (email_webhook_service.ts), the      *)
(* suppression list and the passenger's preferences                        *)
(* (marketing_consent_service.ts).                                         *)
(*                                                                         *)
(* Every handler reads a row, decides and saves it whole, so two of them   *)
(* may overlap; a handler's reads and writes are steps of their own.       *)
(***************************************************************************)
EXTENDS Naturals

CONSTANT MailHandlers   \* requests being served at the same time

VARIABLES
    recipient,   \* status of the campaign recipient the events are about
    preference,  \* the preference row
    suppression, \* "none", or a row whose reason is "liftable" (unsubscribe,
                 \* manual) or "final" (hard bounce, complaint)
    handler,     \* what each request is doing
    withdrawn,   \* history: the passenger's last word was to stop
    barred,      \* history: the address was put on the list, by a bounce, a
                 \* complaint, the provider or an unsubscribe link
    lifted,      \* history: staff took it off the list since
    clobbered    \* history: a save met a row that had changed since its read

mailVars == <<recipient, preference, suppression, handler, withdrawn, barred,
              lifted, clobbered>>

\* "delivered" stands for sent, delivered and delayed, "failed" for a soft
\* bounce and a failure: the code treats them alike.
RecipientStatuses == {"queued", "delivered", "hard_bounced", "complained", "failed"}
isTerminal(status) == status \in {"hard_bounced", "complained", "failed"}
Preference == [marketing : BOOLEAN, email : BOOLEAN, push : BOOLEAN]
NothingOn == [marketing |-> FALSE, email |-> FALSE, push |-> FALSE]
HandlerAt == {"idle", "marking", "suppressing", "toWithdraw", "withdrawing",
              "editing", "unsubscribing", "linkSuppressing"}
FreeHandler == [at |-> "idle", row |-> "queued", pref |-> NothingOn, event |-> "none"]

MailTypeOK ==
    /\ recipient \in RecipientStatuses
    /\ preference \in Preference
    /\ suppression \in {"none", "liftable", "final"}
    /\ handler \in [MailHandlers -> [at : HandlerAt, row : RecipientStatuses,
                                     pref : Preference,
                                     event : RecipientStatuses \cup {"none", "contact"}]]
    /\ {withdrawn, barred, lifted, clobbered} \subseteq BOOLEAN

MailInit ==
    /\ recipient = "queued"
    /\ preference = NothingOn
    /\ suppression = "none"
    /\ handler = [h \in MailHandlers |-> FreeHandler]
    /\ withdrawn = FALSE /\ barred = FALSE /\ lifted = FALSE /\ clobbered = FALSE

History == <<withdrawn, barred, lifted, clobbered>>

-----------------------------------------------------------------------------
(* The recipient row.                                                      *)

\* The worker records its send.
WorkerSends ==
    /\ recipient = "queued"
    /\ recipient' = "delivered"
    /\ UNCHANGED <<preference, suppression, handler, History>>

\* A webhook event, recorded once per svix id, reads the recipient.
MailEvents == RecipientStatuses \ {"queued"}
EventArrives(h) == \E e \in MailEvents :
    /\ handler[h].at = "idle" /\ recipient # "queued"
    /\ handler' = [handler EXCEPT ![h] = [FreeHandler EXCEPT
                     !.at = "marking", !.row = recipient, !.event = e]]
    /\ UNCHANGED <<recipient, preference, suppression, History>>

\* Mutant: any event is taken for news.
MarkAnything(h) ==
    /\ handler[h].at = "marking"
    /\ recipient' = handler[h].event
    /\ clobbered' = (clobbered \/ recipient # handler[h].row)
    /\ handler' = [handler EXCEPT ![h] =
         IF handler[h].event \in {"hard_bounced", "complained"}
         THEN [FreeHandler EXCEPT !.at = "suppressing", !.event = handler[h].event]
         ELSE FreeHandler]
    /\ UNCHANGED <<preference, suppression, withdrawn, barred, lifted>>

\* mark: a terminal state is not walked back; a bounce and a complaint go on.
mark(h) ==
    /\ handler[h].at = "marking"
    /\ LET h0 == handler[h]
           kept == isTerminal(h0.row) /\ ~isTerminal(h0.event) IN
       /\ recipient' = IF kept THEN recipient ELSE h0.event
       /\ clobbered' = (clobbered \/ (~kept /\ recipient # h0.row))
       /\ handler' = [handler EXCEPT ![h] =
            IF h0.event \in {"hard_bounced", "complained"}
            THEN [FreeHandler EXCEPT !.at = "suppressing", !.event = h0.event]
            ELSE FreeHandler]
    /\ UNCHANGED <<preference, suppression, withdrawn, barred, lifted>>

-----------------------------------------------------------------------------
(* The suppression list.                                                   *)

\* SuppressionService.add keeps the reason of a row that exists.
add(reason) == suppression' = IF suppression = "none" THEN reason ELSE suppression

ReasonOf(event) ==
    IF event \in {"hard_bounced", "complained"} THEN "final" ELSE "liftable"

\* bounced suppresses and is done; complained and contactUpdated go on to
\* withdraw the consent.
Suppresses(h) ==
    /\ handler[h].at = "suppressing"
    /\ add(ReasonOf(handler[h].event))
    /\ handler' = [handler EXCEPT ![h] =
         IF @.event = "hard_bounced" THEN FreeHandler ELSE [@ EXCEPT !.at = "toWithdraw"]]
    /\ barred' = TRUE /\ lifted' = FALSE
    /\ UNCHANGED <<recipient, preference, withdrawn, clobbered>>

\* An unsubscribe made at the provider.
contactUpdated(h) ==
    /\ handler[h].at = "idle"
    /\ handler' = [handler EXCEPT ![h] = [FreeHandler EXCEPT
                     !.at = "suppressing", !.event = "contact"]]
    /\ UNCHANGED <<recipient, preference, suppression, History>>

StaffSuppresses ==
    /\ add("liftable")
    /\ UNCHANGED <<recipient, preference, handler, History>>

\* SuppressionService.remove lifts an unsubscribe or a manual entry only.
remove ==
    /\ suppression = "liftable"
    /\ suppression' = "none"
    /\ lifted' = TRUE
    /\ UNCHANGED <<recipient, preference, handler, withdrawn, barred, clobbered>>

-----------------------------------------------------------------------------
(* The preferences.                                                        *)

ReadsPreference(h, from, to) ==
    /\ handler[h].at = from
    /\ handler' = [handler EXCEPT ![h].at = to, ![h].pref = preference]
    /\ UNCHANGED <<recipient, preference, suppression, History>>

\* setPreferences with the master switch off: everything downstream goes with
\* it.  The channels are named off by the webhooks as well.
Off(pref) == IF pref.marketing THEN NothingOn
             ELSE [pref EXCEPT !.email = FALSE, !.push = FALSE]

SavesPreference(h, pref) ==
    /\ preference' = pref
    /\ clobbered' = (clobbered \/ preference # handler[h].pref)

\* The app reads the row, for a change of preferences, the prompt or its answer.
EditBegins(h) == ReadsPreference(h, "idle", "editing")

\* The passenger opts in on chosen channels, opts out, changes a channel, or
\* (the prompt was shown) changes nothing.
EditSaves(h) ==
    /\ handler[h].at = "editing"
    /\ \/ \E e, p \in BOOLEAN :
            /\ SavesPreference(h, [marketing |-> TRUE, email |-> e, push |-> p])
            /\ withdrawn' = FALSE
       \/ /\ SavesPreference(h, IF handler[h].pref.marketing THEN NothingOn
                                ELSE handler[h].pref)
          /\ withdrawn' = TRUE
       \/ \E e, p \in BOOLEAN :
            /\ SavesPreference(h, [handler[h].pref EXCEPT !.email = e, !.push = p])
            /\ UNCHANGED withdrawn
    /\ handler' = [handler EXCEPT ![h] = FreeHandler]
    /\ UNCHANGED <<recipient, suppression, barred, lifted>>

\* The link in a mail: the preference first, the suppression after it.
UnsubscribeBegins(h) == ReadsPreference(h, "idle", "unsubscribing")
UnsubscribeSaves(h) ==
    /\ handler[h].at = "unsubscribing"
    /\ SavesPreference(h, IF handler[h].pref.marketing THEN NothingOn
                          ELSE handler[h].pref)
    /\ withdrawn' = TRUE
    /\ handler' = [handler EXCEPT ![h] = [FreeHandler EXCEPT !.at = "linkSuppressing"]]
    /\ UNCHANGED <<recipient, suppression, barred, lifted>>
UnsubscribeSuppresses(h) ==
    /\ handler[h].at = "linkSuppressing"
    /\ add("liftable")
    /\ handler' = [handler EXCEPT ![h] = FreeHandler]
    /\ barred' = TRUE /\ lifted' = FALSE
    /\ UNCHANGED <<recipient, preference, withdrawn, clobbered>>

\* withdrawMarketing, the end of a complaint and of a provider's unsubscribe.
WithdrawBegins(h) == ReadsPreference(h, "toWithdraw", "withdrawing")
WithdrawSaves(h) ==
    /\ handler[h].at = "withdrawing"
    /\ SavesPreference(h, Off(handler[h].pref))
    /\ withdrawn' = TRUE
    /\ handler' = [handler EXCEPT ![h] = FreeHandler]
    /\ UNCHANGED <<recipient, suppression, barred, lifted>>

MailNext ==
    \/ WorkerSends \/ StaffSuppresses \/ remove
    \/ \E h \in MailHandlers :
         \/ EventArrives(h) \/ mark(h) \/ Suppresses(h) \/ contactUpdated(h)
         \/ EditBegins(h) \/ EditSaves(h)
         \/ UnsubscribeBegins(h) \/ UnsubscribeSaves(h) \/ UnsubscribeSuppresses(h)
         \/ WithdrawBegins(h) \/ WithdrawSaves(h)

MailSpec == MailInit /\ [][MailNext]_mailVars

-----------------------------------------------------------------------------
(* The gate of every marketing send, at the moment of sending.             *)

\* Mutant: the suppression list is not looked at.
EligibleByPreference(channel) == preference.marketing /\ preference[channel]

checkChannelEligibility(channel) ==
    /\ channel = "email" => suppression = "none"
    /\ preference.marketing /\ preference[channel]

-----------------------------------------------------------------------------
(* Properties                                                              *)

\* A passenger who said stop gets no marketing on any channel, unless a save met
\* a preference that had changed; and an address that bounced for good, that
\* complained or that was unsubscribed, here or at the provider, gets no e-mail
\* whatever the preferences say later, until staff lift it; in whatever order
\* webhooks, links and edits are served (marketing_consent_service.ts:336).
Silent ==
    /\ withdrawn /\ ~clobbered =>
         ~checkChannelEligibility("email") /\ ~checkChannelEligibility("push")
    /\ barred /\ ~lifted => ~checkChannelEligibility("email")

\* A bounce, a complaint or a failure is the end of a recipient: a delivery
\* reported late does not walk it back (email_webhook_service.ts:197).
Walks == ~clobbered' => (isTerminal(recipient) => isTerminal(recipient'))
NeverWalkedBack == [][Walks]_mailVars
===============================================================================
