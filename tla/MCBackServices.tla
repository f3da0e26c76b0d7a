--------------------------- MODULE MCBackServices -----------------------------
(*****************************************************************************)
(* The services behind the rides, on small instances: the driver's books,    *)
(* the messages to passengers, replayed requests, the park's queue and the   *)
(* dispatchers' phones.                                                      *)
(* They share no state of these models: a property of one holds in every     *)
(* interleaving of them all if it holds while that one alone moves.  So a    *)
(* behaviour chooses one of them at the start and runs it, which makes the   *)
(* state space a sum and not a product.                                      *)
(*****************************************************************************)
EXTENDS WalletBooks, Campaigns, Outreach, Replay, MailFeedback, ParkRoster,
        Duty, TLC

VARIABLE part   \* the service this behaviour runs

backVars == <<part, bookVars, campaignVars, outreachVars, replayVars,
              mailVars, rosterVars, dutyVars>>

BackInit ==
    /\ BooksInit
    /\ CampaignInit
    /\ OutreachInit
    /\ ReplayInit
    /\ MailInit
    /\ RosterInit
    /\ DutyInit
    /\ part \in {"books", "campaign", "outreach", "replay", "mail", "roster",
                "duty"}
    /\ part # "outreach" => reach
    /\ part # "roster" => \A d \in Queuers : roster[d].position = 0
    /\ part # "campaign" => campaign = NewRow

BackNext ==
    /\ UNCHANGED part
    /\ \/ /\ part = "books" /\ BooksNext
          /\ UNCHANGED <<campaignVars, outreachVars, replayVars, mailVars,
                         rosterVars, dutyVars>>
       \/ /\ part = "campaign" /\ CampaignNext
          /\ UNCHANGED <<bookVars, outreachVars, replayVars, mailVars,
                         rosterVars, dutyVars>>
       \/ /\ part = "outreach" /\ OutreachNext
          /\ UNCHANGED <<bookVars, campaignVars, replayVars, mailVars,
                         rosterVars, dutyVars>>
       \/ /\ part = "replay" /\ ReplayNext
          /\ UNCHANGED <<bookVars, campaignVars, outreachVars, mailVars,
                         rosterVars, dutyVars>>
       \/ /\ part = "mail" /\ MailNext
          /\ UNCHANGED <<bookVars, campaignVars, outreachVars, replayVars,
                         rosterVars, dutyVars>>
       \/ /\ part = "roster" /\ RosterNext
          /\ UNCHANGED <<bookVars, campaignVars, outreachVars, replayVars,
                         mailVars, dutyVars>>
       \/ /\ part = "duty" /\ DutyNext
          /\ UNCHANGED <<bookVars, campaignVars, outreachVars, replayVars,
                         mailVars, rosterVars>>

BackSpec == BackInit /\ [][BackNext]_backVars

\* The state of the service that runs has its type.
BackTypeOK ==
    /\ part = "books" => BooksTypeOK
    /\ part = "campaign" => CampaignTypeOK
    /\ part = "outreach" => OutreachTypeOK
    /\ part = "replay" => ReplayTypeOK
    /\ part = "mail" => MailTypeOK
    /\ part = "roster" => RosterTypeOK
    /\ part = "duty" => DutyTypeOK

\* The sets whose members a service treats alike have the same two members
\* here, so that swapping these everywhere is a symmetry of every service.
Symmetry == Permutations(Queuers)
===============================================================================
