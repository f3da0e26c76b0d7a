------------------------------ MODULE StaffSession ------------------------------
(***************************************************************************)
(* The dispatcher's page and its session (keke_dispatcher/app.js, with     *)
(* services/staff_auth_service.ts and routes/staff_auth_routes.ts behind   *)
(* it).                                                                    *)
(*                                                                         *)
(* Every request carries the access token; a 401 makes the page exchange   *)
(* its refresh token, which the server replaces on every use, and ask      *)
(* again.  Several requests do so at once, the phone loses its signal at   *)
(* any point, and the page is reloaded, closed and reopened with what the  *)
(* storage kept.  A refusal for want of a permission (403) is handled as   *)
(* the 401 of a session that ended, and the server answers 401 as well     *)
(* when its database fails.  The exchange of a token has no timeout, so    *)
(* one may be answered after the dispatcher has signed in again: of the    *)
(* sessions before the last sign-in only this is known, that a token of    *)
(* theirs may or may not still be good.                                    *)
(***************************************************************************)
EXTENDS Naturals

CONSTANTS
    Asks,        \* requests that can be under way at the same time
    MaxTokens    \* bound: refresh tokens issued

ASSUME SessionAssumption == MaxTokens \in Nat \ {0}

VARIABLES
    session,  \* the server's row: whether it stands, the token it expects
    minted,   \* refresh tokens issued
    kept,     \* what the page and its storage hold
    ask,      \* ask[a]: a request between two of its answers
    me,       \* S.me is known
    retry,    \* sessionRetryTimer
    screen,   \* what the page shows
    excuse    \* history: why the page may hold another token (KeepsItsSession)

sessionVars == <<session, minted, kept, ask, me, retry, screen, excuse>>

-------------------------------------------------------------------------------
(* Types *)

\* The refresh tokens of the session last signed in to; 0 is none, or that of an
\* earlier session if it comes with an "earlier" access token.
Tokens == 0..MaxTokens
Access == {"none", "good", "aged", "earlier"}
NoTokens == [access |-> "none", refresh |-> 0]
Tab == {"booting", "login", "reconnecting", "gate", "workspace"}
AskKind == {"none", "me", "retry", "board", "work", "bye"}
AskPoint == {"idle", "sent", "asking", "found", "granted", "again"}
NotAsked == [for |-> "none", at |-> "idle", with |-> "none", token |-> 0]

SessionTypeOK ==
    /\ session \in [live : BOOLEAN, token : Tokens] /\ minted \in Tokens
    /\ kept \in [access : Access, refresh : Tokens]
    /\ ask \in [Asks -> [for : AskKind, at : AskPoint, with : Access, token : Tokens]]
    /\ me \in BOOLEAN /\ retry \in BOOLEAN /\ screen \in Tab
    /\ excuse \subseteq {"left", "unanswered", "overtaken", "unread"}

\* A page that was never signed in, or that finds the tokens of its last life.
SessionInit ==
    /\ minted = 1 /\ session = [live |-> TRUE, token |-> 1]
    /\ \/ kept = NoTokens /\ excuse = {"left"}
       \/ kept = [access |-> "aged", refresh |-> 1] /\ excuse = {}
    /\ ask = [a \in Asks |-> NotAsked]
    /\ me = FALSE /\ retry = FALSE /\ screen = "booting"

-------------------------------------------------------------------------------
(* What a request comes to *)

AskMoves(a, at) == ask' = [ask EXCEPT ![a].at = at]
Submit(a, for) ==
    ask' = [ask EXCEPT ![a] =
               [for |-> for, at |-> "sent", with |-> kept.access, token |-> 0]]
Closed(a) == ask' = [ask EXCEPT ![a] = NotAsked]

\* Of several excuses the first will do.
FirstExcuse(why) == IF excuse = {} THEN why ELSE excuse

\* The page is gone, with everything it waited for; storage keeps what it keeps.
PageGone ==
    /\ ask' = [a \in Asks |-> NotAsked]
    /\ me' = FALSE /\ retry' = FALSE /\ screen' = "booting"

\* The end of signOut(): whatever the server said, every local trace goes.
Forgets == kept' = NoTokens /\ PageGone

\* 200
OnSuccess(a) ==
    /\ \/ /\ ask[a].for = "me" /\ me' = TRUE /\ Closed(a)
          /\ screen' \in {"gate", "workspace"} /\ UNCHANGED <<kept, retry>>
       \/ /\ ask[a].for = "retry" /\ me' = TRUE /\ Submit(a, "me")
          /\ UNCHANGED <<kept, retry, screen>>
       \/ /\ ask[a].for = "board" /\ screen' \in {screen, "gate"} /\ Closed(a)
          /\ UNCHANGED <<kept, me, retry>>
       \/ /\ ask[a].for = "work" /\ Closed(a) /\ UNCHANGED <<kept, me, retry, screen>>
       \/ ask[a].for = "bye" /\ Forgets

\* 401 after the one refresh that api() tries.
OnRefusal(a) ==
    /\ \/ /\ ask[a].for \in {"me", "retry", "board"}
          /\ kept' = NoTokens /\ screen' = "login" /\ Closed(a)
          /\ UNCHANGED <<me, retry>>
       \/ ask[a].for = "work" /\ Closed(a) /\ UNCHANGED <<kept, me, retry, screen>>
       \/ ask[a].for = "bye" /\ Forgets

\* A bug the page once had: any failure of the first request signs out.
OnFailureForgetful(a) ==
    \/ ask[a].for \in {"me", "retry", "board"} /\ OnRefusal(a)
    \/ ask[a].for = "work" /\ Closed(a) /\ UNCHANGED <<kept, me, retry, screen>>
    \/ ask[a].for = "bye" /\ Forgets

\* No answer, or an answer that is not about the session (5xx): credentials stay.
OnFailure(a) ==
    /\ \/ /\ ask[a].for \in {"me", "retry"} /\ retry' = TRUE /\ Closed(a)
          /\ screen' = (IF ask[a].for = "me" THEN "reconnecting" ELSE screen)
          /\ UNCHANGED <<kept, me>>
       \/ /\ ask[a].for \in {"board", "work"} /\ Closed(a)
          /\ UNCHANGED <<kept, me, retry, screen>>
       \/ ask[a].for = "bye" /\ Forgets

-------------------------------------------------------------------------------
(* api() and refreshSession() *)

Refreshing(a) == ask[a].at \in {"asking", "found", "granted"}
Admits(a) == ask[a].with = "good" /\ session.live

ComesBack(a) ==
    /\ ask[a].at \in {"sent", "again"} /\ (Admits(a) \/ ask[a].with = "earlier")
    /\ OnSuccess(a) /\ UNCHANGED <<session, minted, excuse>>

Unreachable(a) ==
    /\ ask[a].at \in {"sent", "again"}
    /\ OnFailure(a) /\ UNCHANGED <<session, minted, excuse>>

\* resolveActor: no such session, or the database did not say.
Denied(a) ==
    /\ ask[a].at \in {"sent", "again"}
    /\ IF ask[a].at = "sent" /\ kept # NoTokens
       THEN /\ ask' = [ask EXCEPT ![a] = [@ EXCEPT !.at = "asking", !.with = "none",
                                                   !.token = kept.refresh]]
            /\ UNCHANGED <<kept, me, retry, screen, excuse>>
       ELSE /\ excuse' = FirstExcuse(CASE ask[a].with = "earlier" -> {"overtaken"}
                                    [] Admits(a) -> {"unread"}
                                    [] OTHER -> {})
            /\ OnRefusal(a)
    /\ UNCHANGED <<session, minted>>

\* StaffAuthService.refresh: the row of that token, if it stands.
RefreshFinds(a) ==
    /\ ask[a].at = "asking"
    /\ \/ /\ (session.live /\ session.token = ask[a].token) \/ ask[a].token = 0
          /\ AskMoves(a, "found") /\ UNCHANGED <<kept, me, retry, screen, excuse>>
       \/ /\ ~session.live \/ session.token # ask[a].token
          /\ excuse' = FirstExcuse(IF session.live THEN {"overtaken"} ELSE {})
          /\ OnRefusal(a)
    /\ UNCHANGED <<session, minted>>

\* save() of the row that was read, with a new token.
RefreshSaves(a) ==
    /\ ask[a].at = "found"
    /\ \/ /\ ask[a].token = 0
          /\ AskMoves(a, "granted") /\ UNCHANGED <<session, minted, excuse>>
       \/ /\ ask[a].token # 0 /\ minted < MaxTokens /\ minted' = minted + 1
          /\ session' = [live |-> TRUE, token |-> minted + 1]
          /\ ask' = [ask EXCEPT ![a].at = "granted", ![a].token = minted + 1]
          /\ excuse' = FirstExcuse(IF session.token = ask[a].token THEN {}
                                   ELSE {"overtaken"})
    /\ UNCHANGED <<kept, me, retry, screen>>

\* The page keeps the answer, whoever signed in meanwhile.
RefreshAnswers(a) ==
    /\ ask[a].at = "granted"
    /\ LET access == IF ask[a].token = 0 THEN "earlier" ELSE "good"
       IN  /\ kept' = [access |-> access, refresh |-> ask[a].token]
           /\ ask' = [ask EXCEPT ![a].at = "again", ![a].with = access, ![a].token = 0]
    /\ excuse' = FirstExcuse(IF ask[a].token = 0 THEN {"overtaken"} ELSE {})
    /\ UNCHANGED <<session, minted, me, retry, screen>>

\* refreshSession answers FALSE for a network failure as for a refusal.
RefreshLost(a) ==
    /\ Refreshing(a)
    /\ excuse' = FirstExcuse({"unanswered"}) /\ OnRefusal(a)
    /\ UNCHANGED <<session, minted>>

-------------------------------------------------------------------------------
(* The page *)

\* boot() with nothing to restore, or with tokens to try.
Boots(a) ==
    /\ screen = "booting"
    /\ \/ /\ kept = NoTokens /\ screen' = "login" /\ UNCHANGED ask
       \/ /\ kept # NoTokens /\ ask[a].at = "idle"
          /\ \A b \in Asks : ask[b].for # "me"
          /\ Submit(a, "me") /\ UNCHANGED screen
    /\ UNCHANGED <<session, minted, kept, me, retry, excuse>>

\* Whatever is still under way becomes that of an earlier session, and a sign-out
\* still under way will clear what it finds.
SignIn(a) ==
    /\ screen = "login" /\ minted < MaxTokens /\ ask[a].at = "idle"
    /\ minted' = minted + 1 /\ session' = [live |-> TRUE, token |-> minted + 1]
    /\ kept' = [access |-> "good", refresh |-> minted + 1]
    /\ excuse' = IF \E b \in Asks : ask[b].for = "bye" THEN {"left"} ELSE {}
    /\ ask' = [b \in Asks |->
                 IF b = a
                 THEN [for |-> "me", at |-> "sent", with |-> "good", token |-> 0]
                 ELSE [ask[b] EXCEPT !.with = IF @ = "none" THEN "none" ELSE "earlier",
                                     !.token = 0]]
    /\ UNCHANGED <<me, retry, screen>>

RetryFires(a) ==
    /\ retry /\ ask[a].at = "idle" /\ retry' = FALSE
    /\ Submit(a, "retry") /\ UNCHANGED <<session, minted, kept, me, screen, excuse>>

BackOnline ==
    /\ ~me /\ kept # NoTokens /\ retry' = TRUE
    /\ UNCHANGED <<session, minted, kept, ask, me, screen, excuse>>

\* The board's poll, and any other request of a page that has a token.
Polls(a) ==
    /\ ask[a].at = "idle" /\ kept # NoTokens
    /\ \/ /\ screen = "workspace" /\ \A b \in Asks : ask[b].for # "board"
          /\ Submit(a, "board")
       \/ screen \in {"gate", "workspace"} /\ Submit(a, "work")
    /\ UNCHANGED <<session, minted, kept, me, retry, screen, excuse>>

\* boot() again, once a shift is open.
StartsShift(a) ==
    /\ screen = "gate" /\ ask[a].at = "idle" /\ \A b \in Asks : ask[b].for # "me"
    /\ Submit(a, "me") /\ UNCHANGED <<session, minted, kept, me, retry, screen, excuse>>

\* signOut(): the session first, whether or not the server hears it, then the
\* device, through api().
SignsOut(a) ==
    /\ screen \in {"gate", "workspace"} /\ ask[a].at = "idle"
    /\ \A b \in Asks : ask[b].for # "bye"
    /\ \/ session' = [session EXCEPT !.live = FALSE]
       \/ UNCHANGED session
    /\ excuse' = FirstExcuse({"left"})
    /\ Submit(a, "bye") /\ UNCHANGED <<minted, kept, me, retry, screen>>

Reloads ==
    /\ PageGone
    /\ excuse' = FirstExcuse(IF \E a \in Asks : Refreshing(a) THEN {"unanswered"} ELSE {})
    /\ UNCHANGED <<session, minted, kept>>

TokenAges == kept.access = "good" /\ kept' = [kept EXCEPT !.access = "aged"]
             /\ UNCHANGED <<session, minted, ask, me, retry, screen, excuse>>

\* Suspended, credentials reset, signed out elsewhere, or expired.
SessionEnds == session.live /\ session' = [session EXCEPT !.live = FALSE]
               /\ UNCHANGED <<minted, kept, ask, me, retry, screen, excuse>>

SessionNext ==
    \/ \E a \in Asks :
          \/ ComesBack(a) \/ Unreachable(a) \/ Denied(a)
          \/ RefreshFinds(a) \/ RefreshSaves(a) \/ RefreshAnswers(a) \/ RefreshLost(a)
          \/ Boots(a) \/ SignIn(a) \/ RetryFires(a)
          \/ Polls(a) \/ StartsShift(a) \/ SignsOut(a)
    \/ BackOnline \/ Reloads \/ TokenAges \/ SessionEnds

SessionSpec == SessionInit /\ [][SessionNext]_sessionVars

-------------------------------------------------------------------------------
(* Properties *)

\* While the session last signed in to stands, the dispatcher did not sign out,
\* no refresh went unanswered, nothing of an earlier session or refresh was
\* answered after a later one, and the server could read the session of every
\* renewed token, the page holds the token the server expects or is about to
\* receive it: losing the signal signs nobody out (app.js:906-918).
KeepsItsSession ==
    session.live /\ excuse = {} =>
        \/ kept.refresh = session.token
        \/ \E a \in Asks : ask[a].at = "granted" /\ ask[a].token = session.token
===============================================================================
