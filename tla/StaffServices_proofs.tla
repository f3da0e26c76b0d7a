------------------------- MODULE StaffServices_proofs --------------------------
(*****************************************************************************)
(* What staff see and do, for any number of tabs, requests, rides, drivers,  *)
(* badges and editors.                                                       *)
(*                                                                           *)
(* A page's session: a request that was granted a token has the one the      *)
(* server expects, and no other request and not the page has it, as long as  *)
(* there is no excuse for the session's end.  The dispatcher's sheet and the *)
(* admin page's timers and panes need little more than their own promise;    *)
(* the ring of the operations page, that it began after this visit's backlog *)
(* was noted.                                                                *)
(*                                                                           *)
(* The account behind it: every row of it, the ones requests have read as    *)
(* well, is whole and, unless a row of before a bump was written back, not   *)
(* ahead of the account's version; so what was ended by the version or by    *)
(* the session's row stays ended until both are written back.                *)
(*                                                                           *)
(* The rows of a park, of the badges and of a driver's file are saved whole, *)
(* as they were read: a row about to be saved keeps the promise of its kind  *)
(* (a badge's save fits the index of live badges; the documents of a file    *)
(* whose editors never met are on the disk and named once).                  *)
(*                                                                           *)
(* The lists: what a request has read so far still agrees with the rows, or  *)
(* something was written since it read them and the promise is void; so the  *)
(* list it paints, and the guards that look again, answer as the rows do.    *)
(*                                                                           *)
(* The live monitor: see LiveMonitor_proofs.                                 *)
(*                                                                           *)
(* The parts share no state: a step of one leaves the others' invariants,    *)
(* which turns the four invariants of the parts into those of StaffSpec.     *)
(*****************************************************************************)
EXTENDS MCStaffServices, LiveMonitor_proofs, FiniteSetTheorems, FunctionTheorems,
        SequenceTheorems, WellFoundedInduction, TLAPS

-----------------------------------------------------------------------------
(* The session of a page                                                    *)

\* Tokens that exist, a good-bye is an excuse, a repeated request has a fresh
\* token.
TokensInv ==
    /\ session.token \in 1..minted /\ kept.refresh \in 0..minted
    /\ \A a \in Asks :
          /\ ask[a].token \in 0..minted
          /\ ask[a].for = "bye" => excuse # {} /\ ask[a].at # "idle"
          /\ ask[a].at = "again" => ask[a].with \in {"good", "earlier"}

\* A token of the last session that is granted is the one the server expects, and
\* nobody else holds it or asks with it.
Granted(a) == ask[a].at = "granted" /\ ask[a].token # 0
GrantsInv ==
    excuse = {} => \A a \in Asks : Granted(a) =>
        /\ ask[a].token = session.token
        /\ kept.refresh # session.token
        /\ \A b \in Asks \ {a} : ask[b].token # session.token

Excuse == {"left", "unanswered", "overtaken", "unread"}

SessionInv == SessionTypeOK /\ TokensInv /\ GrantsInv /\ KeepsItsSession

Request == [for : AskKind, at : AskPoint, with : Access, token : Tokens]

LEMMA SessionInvInit == SessionInit => SessionInv
<1> SUFFICES ASSUME SessionInit PROVE SessionInv OBVIOUS
<1>1. 0 \in Tokens /\ 1 \in Tokens /\ minted = 1
  BY SessionAssumption DEF SessionInit, Tokens, SessionAssumption
<1>2. NotAsked \in Request BY <1>1 DEF NotAsked, Request, AskKind, AskPoint, Access
<1>3. ask \in [Asks -> Request] BY <1>2 DEF SessionInit
<1>4. SessionTypeOK
  <2>1. kept \in [access : Access, refresh : Tokens]
        /\ session \in [live : BOOLEAN, token : Tokens]
    BY <1>1 DEF SessionInit, NoTokens, Access
  <2> QED BY <1>1, <1>3, <2>1 DEF SessionInit, SessionTypeOK, Request, Tab, Access
<1> QED BY <1>1, <1>4 DEF SessionInit, SessionInv, TokensInv, GrantsInv,
        KeepsItsSession, Granted, NotAsked, NoTokens

\* A request that moves: its place afterwards is r, the others stand.
LEMMA AskMoved ==
    ASSUME SessionTypeOK, NEW a \in Asks, NEW r \in Request,
           ask' = [ask EXCEPT ![a] = r]
    PROVE  /\ ask' \in [Asks -> Request] /\ ask'[a] = r
           /\ \A b \in Asks \ {a} : ask'[b] = ask[b]
BY DEF SessionTypeOK, Request

\* What the page may do on an answer: forget everything, or close the request or
\* send another in its place, with the tokens kept or dropped.
PageMoves(a, drops) ==
    \/ ask[a].for = "bye" /\ Forgets
    \/ /\ \E r \in Request : r.token = 0 /\ r.at \in {"idle", "sent"} /\ r.for # "bye"
                             /\ ask' = [ask EXCEPT ![a] = r]
       /\ kept' = kept \/ (drops /\ kept' = NoTokens)
       /\ me' \in BOOLEAN /\ retry' \in BOOLEAN /\ screen' \in Tab

LEMMA Answers ==
    ASSUME SessionTypeOK, NEW a \in Asks
    PROVE  /\ OnSuccess(a) => PageMoves(a, FALSE)
           /\ OnFailure(a) => PageMoves(a, FALSE)
           /\ OnRefusal(a) => PageMoves(a, TRUE)
<1>1. NotAsked \in Request /\ NotAsked.token = 0 /\ NotAsked.at = "idle"
      /\ NotAsked.for = "none"
  BY SessionAssumption
     DEF NotAsked, Request, AskKind, AskPoint, Access, Tokens, SessionAssumption
<1> DEFINE me2 == [for |-> "me", at |-> "sent", with |-> kept.access, token |-> 0]
<1>2. me2 \in Request /\ me2.token = 0 /\ me2.at = "sent" /\ me2.for = "me"
  BY SessionAssumption
     DEF Request, AskKind, AskPoint, Tokens, SessionAssumption, SessionTypeOK
<1>3. Submit(a, "me") => ask' = [ask EXCEPT ![a] = me2] BY DEF Submit
<1> HIDE DEF me2
<1>4. me \in BOOLEAN /\ retry \in BOOLEAN /\ screen \in Tab BY DEF SessionTypeOK
<1>5. OnSuccess(a) => PageMoves(a, FALSE)
  BY <1>1, <1>2, <1>3, <1>4 DEF OnSuccess, PageMoves, Closed, Tab
<1>6. OnFailure(a) => PageMoves(a, FALSE)
  BY <1>1, <1>4 DEF OnFailure, PageMoves, Closed, Tab
<1>7. OnRefusal(a) => PageMoves(a, TRUE)
  BY <1>1, <1>4 DEF OnRefusal, PageMoves, Closed, Tab
<1> QED BY <1>5, <1>6, <1>7

LEMMA SessionFacts ==
    ASSUME SessionInv
    PROVE  /\ SessionTypeOK /\ TokensInv /\ GrantsInv /\ KeepsItsSession
           /\ ask \in [Asks -> Request] /\ minted \in Nat /\ minted \in Tokens
           /\ NotAsked \in Request /\ NotAsked.token = 0 /\ NotAsked.at = "idle"
           /\ NotAsked.for = "none" /\ NotAsked.with = "none" /\ NoTokens.refresh = 0
           /\ NoTokens \in [access : Access, refresh : Tokens]
<1>1. 0 \in Tokens BY SessionAssumption DEF Tokens, SessionAssumption
<1> QED BY <1>1, SessionAssumption
        DEF SessionInv, SessionTypeOK, Request, Tokens, NotAsked, NoTokens, AskKind,
            AskPoint, Access, SessionAssumption

\* The page is gone: what it waited for goes with it.
LEMMA GoneKeeps ==
    ASSUME SessionInv, PageGone, UNCHANGED <<session, minted>>,
           excuse \subseteq excuse', excuse' \subseteq Excuse,
           kept' \in {kept, NoTokens},
           excuse' = {} => kept' = kept /\ \A a \in Asks : ~Granted(a)
    PROVE  SessionInv'
<1> USE SessionFacts
<1>1. ask' \in [Asks -> Request] BY DEF PageGone
<1>2. SessionTypeOK' BY <1>1 DEF PageGone, SessionTypeOK, Request, Tab, Excuse
<1>3. TokensInv' BY DEF TokensInv, PageGone
<1>4. GrantsInv' BY DEF GrantsInv, Granted, PageGone
<1>5. KeepsItsSession' BY DEF KeepsItsSession, Granted, TokensInv
<1> QED BY <1>2, <1>3, <1>4, <1>5 DEF SessionInv

\* An answer changes what the page holds only if the session is over or had an
\* excuse.
LEMMA PageKeeps ==
    ASSUME SessionInv, NEW a \in Asks, NEW drops \in BOOLEAN, PageMoves(a, drops),
           ~Granted(a) \/ excuse' # {},
           UNCHANGED <<session, minted>>,
           excuse \subseteq excuse', excuse' \subseteq Excuse,
           drops => ~session.live \/ excuse' # {} \/ kept.refresh = 0
    PROVE  SessionInv'
<1> USE SessionFacts
<1>1. CASE ask[a].for = "bye" /\ Forgets
  <2>1. excuse' # {} BY <1>1 DEF TokensInv
  <2> QED BY <1>1, <2>1, GoneKeeps DEF Forgets
<1>2. CASE /\ \E r \in Request : r.token = 0 /\ r.at \in {"idle", "sent"}
                                 /\ r.for # "bye" /\ ask' = [ask EXCEPT ![a] = r]
           /\ kept' = kept \/ (drops /\ kept' = NoTokens)
           /\ me' \in BOOLEAN /\ retry' \in BOOLEAN /\ screen' \in Tab
  <2>1. PICK r \in Request : r.token = 0 /\ r.at \in {"idle", "sent"}
                             /\ r.for # "bye" /\ ask' = [ask EXCEPT ![a] = r]
    BY <1>2
  <2>2. /\ ask' \in [Asks -> Request] /\ ask'[a] = r
        /\ \A b \in Asks \ {a} : ask'[b] = ask[b]
    BY <2>1, AskMoved
  <2>3. SessionTypeOK' BY <1>2, <2>2 DEF SessionTypeOK, Request, Excuse
  <2>4. TokensInv' BY <1>2, <2>1, <2>2 DEF TokensInv
  <2>5. GrantsInv'
    <3> SUFFICES ASSUME excuse' = {}, NEW c \in Asks, Granted(c)'
                 PROVE  /\ ask'[c].token = session.token
                        /\ kept'.refresh # session.token
                        /\ \A b \in Asks \ {c} : ask'[b].token # session.token
      BY DEF GrantsInv
    <3>1. c # a /\ Granted(c) /\ excuse = {} BY <2>1, <2>2 DEF Granted
    <3>2. kept'.refresh \in {kept.refresh, 0} /\ session.token # 0
      BY <1>2 DEF TokensInv
    <3> QED BY <2>1, <2>2, <3>1, <3>2 DEF GrantsInv
  <2>6. KeepsItsSession'
    <3> SUFFICES ASSUME session.live, excuse' = {}
                 PROVE  \/ kept'.refresh = session.token
                        \/ \E c \in Asks : ask'[c].at = "granted" 
                                           /\ ask'[c].token = session.token
      BY DEF KeepsItsSession
    <3>1. ~Granted(a) /\ excuse = {} OBVIOUS
    <3>2. CASE \E c \in Asks : Granted(c) /\ ask[c].token = session.token
      BY <2>2, <3>1, <3>2 DEF Granted
    <3>3. CASE ~\E c \in Asks : Granted(c) /\ ask[c].token = session.token
      <4>1. kept.refresh = session.token BY <3>1, <3>3 DEF KeepsItsSession, Granted, TokensInv
      <4>2. kept.refresh # 0 BY <4>1 DEF TokensInv
      <4> QED BY <1>2, <4>1, <4>2
    <3> QED BY <3>2, <3>3
  <2> QED BY <2>3, <2>4, <2>5, <2>6 DEF SessionInv
<1> QED BY <1>1, <1>2 DEF PageMoves

\* Asking with the tokens the page has.
LEMMA AsksKeep ==
    ASSUME SessionInv, NEW a \in Asks, NEW for \in AskKind \ {"bye"}, Submit(a, for),
           ~Granted(a), UNCHANGED <<session, minted, kept, excuse>>,
           me' \in BOOLEAN, retry' \in BOOLEAN, screen' \in Tab
    PROVE  SessionInv'
<1> DEFINE r == [for |-> for, at |-> "sent", with |-> kept.access, token |-> 0]
<1>1. r \in Request /\ r.token = 0 /\ r.at = "sent" /\ r.for # "bye"
  BY SessionFacts, SessionAssumption
     DEF Request, AskPoint, Tokens, SessionTypeOK, SessionAssumption
<1>2. ask' = [ask EXCEPT ![a] = r] BY DEF Submit
<1> HIDE DEF r
<1>3. PageMoves(a, FALSE) BY <1>1, <1>2 DEF PageMoves
<1> QED BY <1>3, PageKeeps, SessionFacts DEF SessionTypeOK, Excuse

LEMMA SessionInvStep == SessionInv /\ [SessionNext]_sessionVars => SessionInv'
<1> SUFFICES ASSUME SessionInv, [SessionNext]_sessionVars PROVE SessionInv' OBVIOUS
<1>0. /\ SessionTypeOK /\ TokensInv /\ GrantsInv /\ KeepsItsSession
      /\ ask \in [Asks -> Request] /\ minted \in Nat /\ minted \in Tokens
      /\ me \in BOOLEAN /\ retry \in BOOLEAN /\ screen \in Tab
      /\ excuse \subseteq Excuse
      /\ NoTokens.refresh = 0
  BY SessionFacts DEF SessionTypeOK, Excuse
<1>1. CASE UNCHANGED sessionVars
  BY <1>0, <1>1 DEF sessionVars, SessionInv, SessionTypeOK, TokensInv, GrantsInv,
     KeepsItsSession, Granted
<1>2. ASSUME NEW a \in Asks, ComesBack(a) \/ Unreachable(a) PROVE SessionInv'
  <2>1. PageMoves(a, FALSE) /\ ~Granted(a) /\ UNCHANGED <<session, minted, excuse>>
    BY <1>0, <1>2, Answers DEF ComesBack, Unreachable, Granted
  <2> QED BY <1>0, <2>1, PageKeeps
<1>3. ASSUME NEW a \in Asks, Denied(a) PROVE SessionInv'
  <2> DEFINE why == CASE ask[a].with = "earlier" -> {"overtaken"}
                      [] Admits(a) -> {"unread"}
                      [] OTHER -> {}
  <2>1. CASE /\ ~(ask[a].at = "sent" /\ kept # NoTokens)
             /\ excuse' = FirstExcuse(why) /\ OnRefusal(a)
    <3>1. PageMoves(a, TRUE) /\ ~Granted(a) /\ UNCHANGED <<session, minted>>
      BY <1>0, <1>3, <2>1, Answers DEF Denied, Granted
    <3>2. ~session.live \/ why # {} \/ kept.refresh = 0
      <4>1. CASE ask[a].at = "sent" BY <1>0, <2>1, <4>1
      <4>2. CASE ask[a].at = "again"
        <5>1. ask[a].with \in {"good", "earlier"} BY <1>0, <4>2 DEF TokensInv
        <5> QED BY <5>1 DEF Admits
      <4> QED BY <1>3, <4>1, <4>2 DEF Denied
    <3>3. why \subseteq Excuse BY DEF Excuse
    <3> HIDE DEF why
    <3>4. excuse \subseteq excuse' /\ excuse' \subseteq Excuse
      BY <1>0, <2>1, <3>3 DEF FirstExcuse
    <3>5. ~session.live \/ excuse' # {} \/ kept.refresh = 0 BY <2>1, <3>2 DEF FirstExcuse
    <3> QED BY <1>0, <3>1, <3>4, <3>5, PageKeeps
  <2>2. CASE /\ ask[a].at = "sent"
             /\ ask' = [ask EXCEPT ![a] = [@ EXCEPT !.at = "asking", !.with = "none",
                                                     !.token = kept.refresh]]
             /\ UNCHANGED <<kept, me, retry, screen, excuse>>
    <3> DEFINE r == [ask[a] EXCEPT !.at = "asking", !.with = "none",
                                   !.token = kept.refresh]
    <3>1. r \in Request /\ r.token = kept.refresh /\ r.at = "asking"
          /\ r.for = ask[a].for
      BY <1>0 DEF Request, AskPoint, Access, SessionTypeOK
    <3>2. ask' = [ask EXCEPT ![a] = r] BY <1>0, <2>2
    <3> HIDE DEF r
    <3>3. /\ ask' \in [Asks -> Request] /\ ask'[a] = r
          /\ \A b \in Asks \ {a} : ask'[b] = ask[b]
      BY <1>0, <3>1, <3>2, AskMoved
    <3>4. UNCHANGED <<session, minted, kept, excuse>> BY <1>3, <2>2 DEF Denied
    <3>5. SessionTypeOK' BY <1>0, <2>2, <3>3, <3>4 DEF SessionTypeOK, Request
    <3>6. TokensInv' BY <1>0, <3>1, <3>3, <3>4 DEF TokensInv
    <3>7. GrantsInv' BY <1>0, <3>1, <3>3, <3>4 DEF GrantsInv, Granted
    <3>8. KeepsItsSession'
      BY <1>0, <2>2, <3>1, <3>3, <3>4 DEF KeepsItsSession, Granted
    <3> QED BY <3>5, <3>6, <3>7, <3>8 DEF SessionInv
  <2>3. IF ask[a].at = "sent" /\ kept # NoTokens
        THEN /\ ask' = [ask EXCEPT ![a] = [@ EXCEPT !.at = "asking", !.with = "none",
                                                    !.token = kept.refresh]]
             /\ UNCHANGED <<kept, me, retry, screen, excuse>>
        ELSE excuse' = FirstExcuse(why) /\ OnRefusal(a)
    BY <1>3 DEF Denied
  <2>4. CASE ask[a].at = "sent" /\ kept # NoTokens BY <2>2, <2>3, <2>4
  <2>5. CASE ~(ask[a].at = "sent" /\ kept # NoTokens) BY <2>1, <2>3, <2>5
  <2> QED BY <2>4, <2>5
<1>4. ASSUME NEW a \in Asks, RefreshFinds(a) PROVE SessionInv'
  <2>1. CASE /\ (session.live /\ session.token = ask[a].token) \/ ask[a].token = 0
             /\ AskMoves(a, "found") /\ UNCHANGED <<kept, me, retry, screen, excuse>>
    <3> DEFINE r == [ask[a] EXCEPT !.at = "found"]
    <3>1. r \in Request /\ r.token = ask[a].token /\ r.at = "found"
          /\ r.for = ask[a].for
      BY <1>0 DEF Request, AskPoint
    <3>2. ask' = [ask EXCEPT ![a] = r] BY <1>0, <2>1 DEF AskMoves
    <3> HIDE DEF r
    <3>3. /\ ask' \in [Asks -> Request] /\ ask'[a] = r
          /\ \A b \in Asks \ {a} : ask'[b] = ask[b]
      BY <1>0, <3>1, <3>2, AskMoved
    <3>4. UNCHANGED <<session, minted, kept, excuse>> /\ ask[a].at = "asking"
      BY <1>4, <2>1 DEF RefreshFinds
    <3>5. SessionTypeOK' BY <1>0, <2>1, <3>3, <3>4 DEF SessionTypeOK, Request
    <3>6. TokensInv' BY <1>0, <3>1, <3>3, <3>4 DEF TokensInv
    <3>7. GrantsInv' BY <1>0, <3>1, <3>3, <3>4 DEF GrantsInv, Granted
    <3>8. KeepsItsSession'
      BY <1>0, <3>1, <3>3, <3>4 DEF KeepsItsSession, Granted
    <3> QED BY <3>5, <3>6, <3>7, <3>8 DEF SessionInv
  <2>2. CASE /\ ~session.live \/ session.token # ask[a].token
             /\ excuse' = FirstExcuse(IF session.live THEN {"overtaken"} ELSE {})
             /\ OnRefusal(a)
    <3>1. PageMoves(a, TRUE) /\ ~Granted(a) /\ UNCHANGED <<session, minted>>
      BY <1>0, <1>4, <2>2, Answers DEF RefreshFinds, Granted
    <3>2. ~session.live \/ excuse' # {} BY <2>2 DEF FirstExcuse
    <3>3. excuse \subseteq excuse' /\ excuse' \subseteq Excuse
      BY <1>0, <2>2 DEF Excuse, FirstExcuse
    <3> QED BY <1>0, <3>1, <3>2, <3>3, PageKeeps
  <2> QED BY <1>4, <2>1, <2>2 DEF RefreshFinds
<1>a. ASSUME NEW a \in Asks, RefreshSaves(a), ask[a].token = 0 PROVE SessionInv'
  <2> DEFINE r == [ask[a] EXCEPT !.at = "granted"]
  <2>1. r \in Request /\ r.token = 0 /\ r.at = "granted" /\ r.for = ask[a].for
    BY <1>0, <1>a DEF Request, AskPoint
  <2>2. /\ ask' = [ask EXCEPT ![a] = r] /\ ask[a].at = "found"
        /\ UNCHANGED <<session, minted, kept, me, retry, screen, excuse>>
    BY <1>0, <1>a DEF RefreshSaves, AskMoves
  <2> HIDE DEF r
  <2>3. /\ ask' \in [Asks -> Request] /\ ask'[a] = r
        /\ \A b \in Asks \ {a} : ask'[b] = ask[b]
    BY <1>0, <2>1, <2>2, AskMoved
  <2>4. SessionTypeOK' BY <1>0, <2>2, <2>3 DEF SessionTypeOK, Request
  <2>5. TokensInv' BY <1>0, <1>a, <2>1, <2>2, <2>3 DEF TokensInv
  <2>6. session.token # 0 BY <1>0 DEF TokensInv
  <2>7. GrantsInv' BY <1>0, <2>1, <2>2, <2>3, <2>6 DEF GrantsInv, Granted
  <2>8. KeepsItsSession'
    BY <1>0, <2>1, <2>2, <2>3 DEF KeepsItsSession, Granted
  <2> QED BY <2>4, <2>5, <2>7, <2>8 DEF SessionInv
<1>5. ASSUME NEW a \in Asks, RefreshSaves(a), ask[a].token # 0 PROVE SessionInv'
  <2>1. /\ ask[a].at = "found" /\ minted < MaxTokens /\ minted' = minted + 1
        /\ session' = [live |-> TRUE, token |-> minted + 1]
        /\ ask' = [ask EXCEPT ![a].at = "granted", ![a].token = minted + 1]
        /\ UNCHANGED <<kept, me, retry, screen>>
        /\ excuse' = IF excuse # {} THEN excuse
                     ELSE IF session.token = ask[a].token THEN {} ELSE {"overtaken"}
    BY <1>5 DEF RefreshSaves, FirstExcuse
  <2>2. minted' \in Tokens /\ MaxTokens \in Nat
    BY <1>0, <2>1, SessionAssumption DEF Tokens, SessionAssumption
  <2> DEFINE r == [ask[a] EXCEPT !.at = "granted", !.token = minted + 1]
  <2>3. r \in Request /\ r.token = minted + 1 /\ r.at = "granted" /\ r.for = ask[a].for
    BY <1>0, <2>1, <2>2 DEF Request, AskPoint
  <2>4. ask' = [ask EXCEPT ![a] = r] BY <1>0, <2>1
  <2> HIDE DEF r
  <2>5. /\ ask' \in [Asks -> Request] /\ ask'[a] = r
        /\ \A b \in Asks \ {a} : ask'[b] = ask[b]
    BY <1>0, <2>3, <2>4, AskMoved
  <2>6. SessionTypeOK' BY <1>0, <2>1, <2>2, <2>5 DEF SessionTypeOK, Request
  <2>7. TokensInv' BY <1>0, <2>1, <2>3, <2>5 DEF TokensInv
  <2>8. GrantsInv'
    <3> SUFFICES ASSUME excuse' = {}, NEW c \in Asks, Granted(c)'
                 PROVE  /\ ask'[c].token = session'.token
                        /\ kept'.refresh # session'.token
                        /\ \A b \in Asks \ {c} : ask'[b].token # session'.token
      BY DEF GrantsInv
    <3>1. excuse = {} /\ session.token = ask[a].token BY <2>1
    <3>2. c = a
      <4> SUFFICES ASSUME c # a PROVE FALSE OBVIOUS
      <4>1. Granted(c) BY <2>5 DEF Granted
      <4> QED BY <1>0, <3>1, <4>1 DEF GrantsInv
    <3>3. kept.refresh \in 0..minted /\ \A b \in Asks : ask[b].token \in 0..minted
      BY <1>0 DEF TokensInv
    <3> QED BY <1>0, <2>1, <2>3, <2>5, <3>2, <3>3
  <2>9. KeepsItsSession' BY <2>1, <2>3, <2>5 DEF KeepsItsSession
  <2> QED BY <2>6, <2>7, <2>8, <2>9 DEF SessionInv
<1>6. ASSUME NEW a \in Asks, RefreshAnswers(a) PROVE SessionInv'
  <2> DEFINE access == IF ask[a].token = 0 THEN "earlier" ELSE "good"
             r == [ask[a] EXCEPT !.at = "again", !.with = access, !.token = 0]
  <2>1. /\ ask[a].at = "granted" /\ kept' = [access |-> access, refresh |-> ask[a].token]
        /\ UNCHANGED <<session, minted, me, retry, screen>>
        /\ excuse' = IF excuse # {} THEN excuse
                     ELSE IF ask[a].token = 0 THEN {"overtaken"} ELSE {}
    BY <1>6 DEF RefreshAnswers, FirstExcuse
  <2>2. access \in {"good", "earlier"} OBVIOUS
  <2>3. r \in Request /\ r.token = 0 /\ r.at = "again" /\ r.for = ask[a].for
        /\ r.with = access
    <3>1. ask[a] \in Request /\ 0 \in Tokens
      BY <1>0, SessionAssumption DEF Tokens, SessionAssumption
    <3> HIDE DEF access
    <3> QED BY <2>2, <3>1 DEF Request, AskPoint, Access
  <2>4. ask' = [ask EXCEPT ![a] = r] BY <1>0, <1>6 DEF RefreshAnswers
  <2> HIDE DEF r
  <2>5. /\ ask' \in [Asks -> Request] /\ ask'[a] = r
        /\ \A b \in Asks \ {a} : ask'[b] = ask[b]
    BY <1>0, <2>3, <2>4, AskMoved
  <2>6. SessionTypeOK'
    <3>1. kept' \in [access : Access, refresh : Tokens]
      BY <1>0, <2>1, <2>2 DEF Request, Access
    <3>2. excuse' \subseteq Excuse BY <1>0, <2>1 DEF Excuse
    <3> QED BY <1>0, <2>1, <2>5, <3>1, <3>2 DEF SessionTypeOK, Request, Excuse
  <2>7. TokensInv' BY <1>0, <2>1, <2>2, <2>3, <2>5 DEF TokensInv
  <2>8. GrantsInv'
    <3> SUFFICES ASSUME excuse' = {}, NEW c \in Asks, Granted(c)' PROVE FALSE
      BY <2>1 DEF GrantsInv
    <3>1. excuse = {} /\ ask[a].token # 0 BY <2>1
    <3>2. c # a /\ Granted(c) /\ Granted(a) BY <2>1, <2>3, <2>5, <3>1 DEF Granted
    <3> QED BY <1>0, <3>1, <3>2 DEF GrantsInv
  <2>9. KeepsItsSession'
    <3> SUFFICES ASSUME excuse' = {} PROVE kept'.refresh = session'.token
      BY DEF KeepsItsSession
    <3>1. excuse = {} /\ Granted(a) BY <2>1 DEF Granted
    <3> QED BY <1>0, <2>1, <3>1 DEF GrantsInv
  <2> QED BY <2>6, <2>7, <2>8, <2>9 DEF SessionInv
<1>7. ASSUME NEW a \in Asks, RefreshLost(a) PROVE SessionInv'
  <2>1. PageMoves(a, TRUE) /\ UNCHANGED <<session, minted>> /\ excuse' # {}
        /\ excuse \subseteq excuse' /\ excuse' \subseteq Excuse
    BY <1>0, <1>7, Answers DEF RefreshLost, Excuse, FirstExcuse
  <2> QED BY <1>0, <2>1, PageKeeps
<1>8. ASSUME NEW a \in Asks, Boots(a) PROVE SessionInv'
  <2>1. CASE screen' = "login" /\ UNCHANGED ask
    <3>1. UNCHANGED <<session, minted, kept, ask, me, retry, excuse>>
      BY <1>8, <2>1 DEF Boots
    <3>2. SessionTypeOK' BY <1>0, <2>1, <3>1 DEF SessionTypeOK, Tab
    <3> QED BY <1>0, <3>1, <3>2 DEF SessionInv, TokensInv, GrantsInv,
            KeepsItsSession, Granted
  <2>2. CASE ask[a].at = "idle" /\ Submit(a, "me") /\ UNCHANGED screen
    <3>1. UNCHANGED <<session, minted, kept, me, retry, excuse>>
      BY <1>8 DEF Boots
    <3> QED BY <1>0, <2>2, <3>1, AsksKeep DEF AskKind, Granted
  <2> QED BY <1>8, <2>1, <2>2 DEF Boots
<1>9. ASSUME NEW a \in Asks, SignIn(a) PROVE SessionInv'
  <2> DEFINE r == [for |-> "me", at |-> "sent", with |-> "good", token |-> 0]
             old(b) == [ask[b] EXCEPT !.with = IF @ = "none" THEN "none" ELSE "earlier",
                                      !.token = 0]
  <2>1. /\ minted < MaxTokens
        /\ minted' = minted + 1 /\ session' = [live |-> TRUE, token |-> minted + 1]
        /\ kept' = [access |-> "good", refresh |-> minted + 1]
        /\ excuse' \in {{"left"}, {}}
        /\ (\E b \in Asks : ask[b].for = "bye") => excuse' # {}
        /\ ask[a].at = "idle"
        /\ UNCHANGED <<me, retry, screen>>
    BY <1>9 DEF SignIn
  <2>2. minted' \in Tokens /\ 0 \in Tokens /\ MaxTokens \in Nat
    BY <1>0, <2>1, SessionAssumption DEF Tokens, SessionAssumption
  <2>3. r \in Request /\ r.token = 0 /\ r.at = "sent" /\ r.for = "me"
    BY <2>2 DEF Request, AskPoint, AskKind, Access
  <2>4. ask' = [b \in Asks |-> IF b = a THEN r ELSE old(b)] BY <1>9 DEF SignIn
  <2>5. \A b \in Asks : /\ old(b) \in Request /\ old(b).token = 0
                        /\ old(b).for = ask[b].for /\ old(b).at = ask[b].at
                        /\ ask[b].with \in {"good", "earlier"} => old(b).with = "earlier"
    BY <1>0, <2>2 DEF Request, Access
  <2> HIDE DEF r, old
  <2>6. /\ ask' \in [Asks -> Request] /\ ask'[a] = r
        /\ \A b \in Asks \ {a} : ask'[b] = old(b)
    BY <2>3, <2>4, <2>5
  <2>7. SessionTypeOK'
    <3>1. kept' \in [access : Access, refresh : Tokens] BY <2>1, <2>2 DEF Access
    <3> QED BY <1>0, <2>1, <2>2, <2>6, <3>1 DEF SessionTypeOK, Request
  <2>8. TokensInv'
    <3>1. session'.token \in 1..minted' /\ kept'.refresh \in 0..minted' /\ 0 \in 0..minted'
      BY <1>0, <2>1
    <3> QED BY <1>0, <2>1, <2>3, <2>5, <2>6, <3>1 DEF TokensInv
  <2>9. GrantsInv' BY <2>3, <2>5, <2>6 DEF GrantsInv, Granted
  <2>10. KeepsItsSession' BY <2>1 DEF KeepsItsSession
  <2> QED BY <2>7, <2>8, <2>9, <2>10 DEF SessionInv
<1>10. ASSUME NEW a \in Asks, RetryFires(a) PROVE SessionInv'
  BY <1>0, <1>10, AsksKeep DEF RetryFires, AskKind, Granted
<1>11. CASE BackOnline
  <2>1. UNCHANGED <<session, minted, kept, ask, me, screen, excuse>> /\ retry' = TRUE
    BY <1>11 DEF BackOnline
  <2>2. SessionTypeOK' BY <1>0, <2>1 DEF SessionTypeOK
  <2> QED BY <1>0, <2>1, <2>2 DEF SessionInv, TokensInv, GrantsInv,
          KeepsItsSession, Granted
<1>12. ASSUME NEW a \in Asks, Polls(a) \/ StartsShift(a) PROVE SessionInv'
  BY <1>0, <1>12, AsksKeep DEF Polls, StartsShift, AskKind, Granted
<1>13. ASSUME NEW a \in Asks, SignsOut(a) PROVE SessionInv'
  <2>1. /\ session' \in {session, [session EXCEPT !.live = FALSE]}
        /\ excuse' # {} /\ excuse' \subseteq Excuse
        /\ UNCHANGED <<minted, kept, me, retry, screen>>
    BY <1>0, <1>13 DEF SignsOut, FirstExcuse, Excuse
  <2> DEFINE r == [for |-> "bye", at |-> "sent", with |-> kept.access, token |-> 0]
  <2>3. r \in Request /\ r.token = 0 /\ r.at = "sent"
    BY <1>0, SessionAssumption
       DEF Request, AskPoint, AskKind, SessionTypeOK, Tokens, SessionAssumption
  <2>4. ask' = [ask EXCEPT ![a] = r] BY <1>13 DEF SignsOut, Submit
  <2> HIDE DEF r
  <2>5. /\ ask' \in [Asks -> Request] /\ ask'[a] = r
        /\ \A b \in Asks \ {a} : ask'[b] = ask[b]
    BY <1>0, <2>3, <2>4, AskMoved
  <2>6. session'.token = session.token /\ session' \in [live : BOOLEAN, token : Tokens]
    BY <1>0, <2>1 DEF SessionTypeOK
  <2>7. SessionTypeOK' BY <1>0, <2>1, <2>5, <2>6 DEF SessionTypeOK, Request, Excuse
  <2>8. TokensInv' BY <1>0, <2>1, <2>3, <2>5, <2>6 DEF TokensInv
  <2>9. GrantsInv' /\ KeepsItsSession' BY <2>1 DEF GrantsInv, KeepsItsSession
  <2> QED BY <2>7, <2>8, <2>9 DEF SessionInv
<1>14. CASE Reloads
  <2>1. /\ PageGone /\ UNCHANGED <<session, minted, kept>> /\ excuse \subseteq excuse'
        /\ (\E a \in Asks : Granted(a)) => excuse' # {}
        /\ excuse' \subseteq Excuse
    BY <1>0, <1>14 DEF Reloads, Refreshing, Granted, Excuse, FirstExcuse
  <2> QED BY <1>0, <2>1, GoneKeeps
<1>15. CASE TokenAges
  <2>1. /\ kept' = [kept EXCEPT !.access = "aged"]
        /\ UNCHANGED <<session, minted, ask, me, retry, screen, excuse>>
    BY <1>15 DEF TokenAges
  <2>2. kept'.refresh = kept.refresh
        /\ kept' \in [access : Access, refresh : Tokens]
    BY <1>0, <2>1 DEF SessionTypeOK, Access
  <2>3. SessionTypeOK' BY <1>0, <2>1, <2>2 DEF SessionTypeOK
  <2> QED BY <1>0, <2>1, <2>2, <2>3 DEF SessionInv, TokensInv, GrantsInv,
          KeepsItsSession, Granted
<1>16. CASE SessionEnds
  <2>1. /\ session' = [session EXCEPT !.live = FALSE]
        /\ UNCHANGED <<minted, kept, ask, me, retry, screen, excuse>>
    BY <1>16 DEF SessionEnds
  <2>2. ~session'.live /\ session'.token = session.token
        /\ session' \in [live : BOOLEAN, token : Tokens]
    BY <1>0, <2>1 DEF SessionTypeOK
  <2>3. SessionTypeOK' BY <1>0, <2>1, <2>2 DEF SessionTypeOK
  <2> QED BY <1>0, <2>1, <2>2, <2>3 DEF SessionInv, TokensInv, GrantsInv,
          KeepsItsSession, Granted
<1> QED BY <1>1, <1>2, <1>3, <1>4, <1>a, <1>5, <1>6, <1>7, <1>8, <1>9, <1>10, <1>11, <1>12,
           <1>13, <1>14, <1>15, <1>16
        DEF SessionNext

-----------------------------------------------------------------------------
(* The dispatcher's sheet                                                   *)

BoardInv == BoardTypeOK /\ SheetKeepsItsRequest


\* The page's records are of their types.
Sheet == [shows : BoardJobs \cup {NoBoardJob}, sent : BOOLEAN]
Act == [does : Deed, on : BoardJobs \cup {NoBoardJob}, at : {"idle", "sent", "asking"}]
Reminder == [on : BOOLEAN, rung : 0..MaxRings]

LEMMA BoardRecords ==
    /\ NoSheet \in Sheet /\ NoAct \in Act /\ NoReminder \in Reminder
    /\ \A j \in BoardJobs : [shows |-> j, sent |-> FALSE] \in Sheet
    /\ \A does \in Deed, j \in BoardJobs : [does |-> does, on |-> j, at |-> "sent"] \in Act
BY BoardAssumption
   DEF NoSheet, NoAct, NoReminder, Sheet, Act, Reminder, Deed, BoardAssumption

LEMMA BoardInvInit == BoardInit => BoardInv
<1> SUFFICES ASSUME BoardInit PROVE BoardInv OBVIOUS
<1>1. shown \in Boards BY DEF BoardInit, Boards, Empty, JobState
<1>2. sheet \in Sheet /\ act \in Act /\ realert \in Reminder
  BY BoardRecords DEF BoardInit
<1>3. BoardTypeOK
  BY <1>1, <1>2 DEF BoardInit, BoardTypeOK, Sheet, Act, Reminder
<1> QED BY <1>3 DEF BoardInit, BoardInv, SheetKeepsItsRequest

\* What a sheet shows is fixed while it is open; with no new excuse the selection
\* does not leave it.
LEMMA SheetStays ==
    ASSUME BoardInv, BoardTypeOK', moved \subseteq moved',
           \/ sheet' = NoSheet
           \/ /\ sheet # NoSheet /\ sheet'.shows = sheet.shows
              /\ selected' = selected \/ moved' # {}
    PROVE  BoardInv'
BY DEF BoardInv, SheetKeepsItsRequest, BoardTypeOK

LEMMA BoardInvStep == BoardInv /\ [BoardNext]_boardVars => BoardInv'
<1> SUFFICES ASSUME BoardInv, BoardNext PROVE BoardInv'
  BY DEF boardVars, BoardInv, SheetKeepsItsRequest, BoardTypeOK
<1>0. /\ BoardTypeOK /\ shown \in Boards /\ sheet \in Sheet /\ act \in Act
      /\ realert \in Reminder
  BY DEF BoardInv, BoardTypeOK, Sheet, Act, Reminder
<1> DEFINE Cell == BoardJobs \cup {NoBoardJob}
<1>1. ASSUME NEW b, Reminds(b) PROVE realert' \in Reminder
  BY <1>0, <1>1, BoardRecords DEF Reminds, Reminder
<1>2. ASSUME shown' \in Boards, asking' \in BOOLEAN, selected' \in Cell,
             sheet' \in Sheet, act' \in Act, realert' \in Reminder,
             moved' \subseteq {"gone", "notified", "late"}
      PROVE  BoardTypeOK'
  BY <1>2 DEF BoardTypeOK, Sheet, Act, Reminder
<1>3. ASSUME NEW j \in BoardJobs, CancelledEvent(j) PROVE BoardInv'
  <2>1. BoardTypeOK'
    BY <1>0, <1>2, <1>3 DEF CancelledEvent, AsksAnew, Excused, BoardTypeOK
  <2> QED BY <2>1, <1>3, SheetStays DEF CancelledEvent, Excused
<1>4. ASSUME NEW j \in BoardJobs, Selects(j) PROVE BoardInv'
  <2>1. BoardTypeOK' BY <1>0, <1>1, <1>2, <1>4 DEF Selects, BoardTypeOK
  <2> QED BY <2>1, <1>4, SheetStays DEF Selects, Covered
<1>5. ASSUME NEW j \in BoardJobs, Claims(j) \/ Resolves(j) PROVE BoardInv'
  <2>1. act' \in Act BY <1>5, BoardRecords DEF Claims, Resolves, Sends, Deed
  <2>2. /\ realert' \in Reminder /\ Covered = FALSE
        /\ UNCHANGED <<shown, asking, selected, sheet, moved>>
    BY <1>5, BoardRecords DEF Claims, Resolves, Touched, Covered
  <2>3. BoardTypeOK' BY <1>0, <1>2, <2>1, <2>2 DEF BoardTypeOK
  <2> QED BY <2>2, <2>3, SheetStays DEF Covered
<1>6. ASSUME NEW j \in BoardJobs, OpensNotified(j) PROVE BoardInv'
  <2>1. BoardTypeOK'
    BY <1>0, <1>1, <1>2, <1>6 DEF OpensNotified, BoardTypeOK, Excused
  <2> QED BY <2>1, <1>6, SheetStays DEF OpensNotified, Excused
<1>7. CASE Refreshes
  <2>1. BoardTypeOK' BY <1>0, <1>2, <1>7 DEF Refreshes, AsksAnew, BoardTypeOK
  <2> QED BY <2>1, <1>7, SheetStays DEF Refreshes
<1>8. ASSUME ActEnds PROVE act' \in Act /\ sheet' \in {sheet, NoSheet}
  BY <1>0, <1>8, BoardRecords DEF ActEnds, SheetAfter
<1>9. CASE DashboardShown
  <2>1. Reselections(shown') \subseteq Cell
        /\ (selected \in OnBoard(shown') => Reselections(shown') = {selected})
    BY <1>0 DEF Reselections, Mine, OnBoard, BoardTypeOK
  <2>2. realert' \in Reminder BY <1>1, <1>9 DEF DashboardShown
  <2>3. BoardTypeOK'
    BY <1>0, <1>2, <1>8, <1>9, <2>1, <2>2, BoardRecords
       DEF DashboardShown, Excused, BoardTypeOK
  <2>4. selected' = selected \/ moved' # {}
    BY <1>9, <2>1 DEF DashboardShown, Excused
  <2> QED BY <1>8, <1>9, <2>3, <2>4, SheetStays DEF DashboardShown, Excused
<1>10. CASE RefreshFails
  <2>1. BoardTypeOK' BY <1>0, <1>2, <1>8, <1>10, BoardRecords DEF RefreshFails, BoardTypeOK
  <2> QED BY <1>8, <1>10, <2>1, SheetStays DEF RefreshFails
<1>11. CASE OpensSheet
  <2>1. selected \in BoardJobs BY <1>0, <1>11 DEF OpensSheet, BoardTypeOK
  <2>2. BoardTypeOK'
    BY <1>0, <1>2, <1>11, <2>1, BoardRecords DEF OpensSheet, Touched, BoardTypeOK
  <2>3. SheetKeepsItsRequest' BY <1>11 DEF OpensSheet, SheetKeepsItsRequest
  <2> QED BY <2>2, <2>3 DEF BoardInv
<1>12. CASE LeavesSheet
  <2>1. BoardTypeOK'
    BY <1>0, <1>2, <1>12, BoardRecords DEF LeavesSheet, Touched, BoardTypeOK
  <2> QED BY <2>1, <1>12, SheetStays DEF LeavesSheet
<1>13. CASE ConfirmsSheet
  <2>1. [sheet EXCEPT !.sent = TRUE] \in Sheet
        /\ [sheet EXCEPT !.sent = TRUE].shows = sheet.shows
    BY <1>0 DEF Sheet
  <2>2. selected # NoBoardJob => selected \in BoardJobs BY <1>0 DEF BoardTypeOK
  <2>3. act' \in Act
    BY <1>0, <1>13, <2>2, BoardRecords DEF ConfirmsSheet, Sends, Deed
  <2>4. sheet' \in Sheet /\ (sheet' = NoSheet \/ sheet'.shows = sheet.shows)
    BY <1>13, <2>1, BoardRecords DEF ConfirmsSheet
  <2>5. /\ realert' \in Reminder /\ sheet # NoSheet
        /\ UNCHANGED <<shown, asking, selected, moved>>
    BY <1>13, BoardRecords DEF ConfirmsSheet, Touched, Covered
  <2>6. BoardTypeOK' BY <1>0, <1>2, <2>3, <2>4, <2>5 DEF BoardTypeOK
  <2> QED BY <2>4, <2>5, <2>6, SheetStays
<1>14. CASE ReminderRings
  <2>1. realert' \in Reminder
    BY <1>0, <1>14, BoardRecords, BoardAssumption
       DEF ReminderRings, Reminder, BoardAssumption
  <2>2. BoardTypeOK' BY <1>0, <1>2, <1>14, <2>1 DEF ReminderRings, BoardTypeOK
  <2> QED BY <2>2, <1>14, SheetStays DEF ReminderRings
<1>15. ASSUME NEW done \in BOOLEAN, ActAnswered(done) PROVE BoardInv'
  <2>1. [act EXCEPT !.at = "asking"] \in Act BY <1>0 DEF Act
  <2>2. act.on \in Cell BY <1>0 DEF Act
  <2>3. SelectsLate(done) \in Cell BY <1>0, <2>2 DEF SelectsLate, BoardTypeOK
  <2>4. sheet' \in {sheet, NoSheet} /\ act' \in Act
    BY <1>15, <2>1, BoardRecords DEF ActAnswered, SheetAfter
  <2>5. BoardTypeOK'
    BY <1>0, <1>2, <1>15, <2>3, <2>4, BoardRecords
       DEF ActAnswered, AsksAnew, Excused, BoardTypeOK
  <2> QED BY <1>15, <2>4, <2>5, SheetStays DEF ActAnswered, Excused
<1> QED BY <1>3, <1>4, <1>5, <1>6, <1>7, <1>9, <1>10, <1>11, <1>12, <1>13, <1>14, <1>15
        DEF BoardNext

-----------------------------------------------------------------------------
(* The ring of the operations page                                          *)

\* A ring that is no stray one began after the backlog of this visit was noted.
PrimedInv == rings # NoWatch /\ ~stray => page.primed

OpsBoardInv == OpsBoardTypeOK /\ PrimedInv /\ RingsForAWaitingRequest

OpenPage == [active : BOOLEAN, primed : BOOLEAN]
UnderDeed == {NoDeed} \cup [does : Undertaking, on : Watched,
                            at : {"sent", "taken", "reading", "listing"}]

LEMMA OpsBoardInvInit == OpsBoardInit => OpsBoardInv
<1> SUFFICES ASSUME OpsBoardInit PROVE OpsBoardInv OBVIOUS
<1>1. page \in [active : BOOLEAN, primed : BOOLEAN] /\ queue \in Queues
  BY DEF OpsBoardInit, Queues
<1>2. deed \in {NoDeed} \cup [does : Undertaking, on : Watched,
                              at : {"sent", "taken", "reading", "listing"}]
  BY DEF OpsBoardInit
<1>3. polls \in 0..MaxPolls BY OpsBoardAssumption DEF OpsBoardInit, OpsBoardAssumption
<1>4. OpsBoardTypeOK BY <1>1, <1>2, <1>3 DEF OpsBoardInit, OpsBoardTypeOK
<1> QED BY <1>4 DEF OpsBoardInit, OpsBoardInv, PrimedInv, RingsForAWaitingRequest

\* A step that leaves the board, the open card and the visit as they are and rings
\* at most for what it rang for.
LEMMA RingStays ==
    ASSUME OpsBoardInv, OpsBoardTypeOK',
           rings' # NoWatch => /\ rings' = rings /\ UNCHANGED <<page, queue, stray>>
                               /\ opened' = opened \/ opened' # rings'
    PROVE  OpsBoardInv'
BY DEF OpsBoardInv, PrimedInv, RingsForAWaitingRequest

\* An answer drawn: the page rings for what it shows.
LEMMA DrawnKeeps ==
    ASSUME OpsBoardInv, Drawn
    PROVE  /\ page' \in OpenPage /\ queue' \in Queues /\ opened' = opened
           /\ rings' \in Watched \cup {NoWatch} /\ alerted' \subseteq Watched
           /\ owned' \subseteq Watched /\ stray' \in BOOLEAN
           /\ PrimedInv' /\ RingsForAWaitingRequest'
<1>0. OpsBoardTypeOK /\ page \in OpenPage BY DEF OpsBoardInv, OpsBoardTypeOK, OpenPage
<1>1. /\ queue' \in Queues /\ owned' = Leased(queue') /\ opened' = opened
      /\ EvaluateRing(queue') /\ stray' = (rings' # NoWatch /\ (stray \/ ~page.active))
  BY DEF Drawn
<1>2. owned' \subseteq Watched /\ stray' \in BOOLEAN BY <1>1 DEF Leased
<1>3. CASE ~page.primed
  <2>1. /\ alerted' = alerted \cup Actionable(queue') /\ rings' = rings
        /\ page' = [page EXCEPT !.primed = TRUE]
    BY <1>1, <1>3 DEF EvaluateRing
  <2>2. page' \in OpenPage BY <1>0, <2>1 DEF OpenPage
  <2>3. rings # NoWatch => stray BY <1>3 DEF OpsBoardInv, PrimedInv
  <2> QED BY <1>0, <1>1, <1>2, <2>1, <2>2, <2>3
          DEF OpsBoardTypeOK, PrimedInv, RingsForAWaitingRequest, Actionable
<1>4. CASE page.primed
  <2> DEFINE quiet == IF StopsRing(queue') THEN NoWatch ELSE rings
  <2>1. quiet \in Watched \cup {NoWatch} /\ (quiet # NoWatch =>
            quiet = rings /\ queue'[quiet] = "waiting" /\ quiet # opened)
    BY <1>0 DEF StopsRing, Actionable, OpsBoardTypeOK
  <2>2. /\ page' = page /\ alerted' \subseteq Watched
        /\ rings' = quiet \/ (rings' \in Actionable(queue') /\ rings' # opened)
    BY <1>0, <1>1, <1>4 DEF EvaluateRing, Actionable, OpsBoardTypeOK
  <2>3. rings' \in Watched \cup {NoWatch} /\ (rings' # NoWatch =>
            queue'[rings'] = "waiting" /\ rings' # opened)
    BY <2>1, <2>2 DEF Actionable
  <2>4. rings' # NoWatch /\ ~stray' => page.active BY <1>1
  <2> HIDE DEF quiet
  <2> QED BY <1>0, <1>1, <1>2, <1>4, <2>2, <2>3, <2>4
          DEF PrimedInv, RingsForAWaitingRequest
<1> QED BY <1>3, <1>4

LEMMA OpsBoardInvStep == OpsBoardInv /\ [OpsBoardNext]_opsBoardVars => OpsBoardInv'
<1> SUFFICES ASSUME OpsBoardInv, OpsBoardNext PROVE OpsBoardInv'
  BY DEF opsBoardVars, OpsBoardInv, OpsBoardTypeOK, PrimedInv, RingsForAWaitingRequest
<1>0. /\ OpsBoardTypeOK /\ page \in OpenPage /\ queue \in Queues
      /\ opened \in Watched \cup {NoWatch} /\ rings \in Watched \cup {NoWatch}
      /\ alerted \subseteq Watched /\ owned \subseteq Watched
      /\ deed \in UnderDeed /\ polls \in 0..MaxPolls /\ stray \in BOOLEAN
      /\ MaxPolls \in Nat \ {0} /\ NoWatch \notin Watched
  BY OpsBoardAssumption
     DEF OpsBoardInv, OpsBoardTypeOK, OpenPage, UnderDeed, OpsBoardAssumption
<1>1. ASSUME page' \in OpenPage, queue' \in Queues,
             opened' \in Watched \cup {NoWatch}, rings' \in Watched \cup {NoWatch},
             alerted' \subseteq Watched, owned' \subseteq Watched,
             deed' \in UnderDeed, polls' \in 0..MaxPolls, stray' \in BOOLEAN
      PROVE  OpsBoardTypeOK'
  BY <1>1 DEF OpsBoardTypeOK, OpenPage, UnderDeed
<1>2. [page EXCEPT !.active = FALSE] \in OpenPage
      /\ [active |-> TRUE, primed |-> FALSE] \in OpenPage
  BY <1>0 DEF OpenPage
<1>3. deed # NoDeed => \A at \in {"sent", "taken", "reading", "listing"} :
          [deed EXCEPT !.at = at] \in UnderDeed
  BY <1>0 DEF UnderDeed
<1>4. NoDeed \in UnderDeed /\ NoDeed.at = "idle" BY DEF UnderDeed, NoDeed
<1>5. deed # NoDeed => deed.on \in Watched BY <1>0 DEF UnderDeed
<1>6. ASSUME NEW r \in Watched, OpensCard(r) PROVE OpsBoardInv'
  <2>1. /\ opened' = r /\ rings' = (IF rings = r THEN NoWatch ELSE rings)
        /\ stray' = (stray /\ rings' # NoWatch)
        /\ UNCHANGED <<page, queue, alerted, owned, deed, polls>>
    BY <1>6 DEF OpensCard, Opens, RingsOn
  <2>2. OpsBoardTypeOK' BY <1>0, <1>1, <2>1
  <2> QED BY <1>0, <2>1, <2>2, RingStays
<1>7. ASSUME NEW r \in Watched, OpensNotice(r) PROVE OpsBoardInv'
  <2>1. /\ opened' = r /\ rings' = (IF rings = r THEN NoWatch ELSE rings)
        /\ stray' = (stray /\ rings' # NoWatch)
        /\ UNCHANGED <<queue, alerted, owned, deed>>
        /\ polls' \in 0..MaxPolls
        /\ page' = IF page.active THEN page ELSE [active |-> TRUE, primed |-> FALSE]
    BY <1>0, <1>7 DEF OpensNotice, Opens, RingsOn
  <2>2. OpsBoardTypeOK' BY <1>0, <1>1, <1>2, <2>1
  <2>3. rings # NoWatch /\ ~stray => page.active
    BY DEF OpsBoardInv, RingsForAWaitingRequest
  <2>4. PrimedInv' /\ RingsForAWaitingRequest'
    BY <1>0, <2>1, <2>3 DEF OpsBoardInv, PrimedInv, RingsForAWaitingRequest
  <2> QED BY <2>2, <2>4 DEF OpsBoardInv
<1>8. ASSUME NEW r \in Watched, RenewRefused(r) PROVE OpsBoardInv'
  <2>1. OpsBoardTypeOK' BY <1>0, <1>1, <1>8 DEF RenewRefused
  <2> QED BY <1>8, <2>1, RingStays DEF RenewRefused
<1>9. ASSUME NEW d \in Undertaking, Undertakes(d) PROVE OpsBoardInv'
  <2>1. deed' \in UnderDeed BY <1>0, <1>9 DEF Undertakes, UnderDeed
  <2>2. OpsBoardTypeOK' BY <1>0, <1>1, <1>9, <2>1 DEF Undertakes
  <2> QED BY <1>9, <2>2, RingStays DEF Undertakes
<1>10. CASE PollFires
  <2>1. OpsBoardTypeOK' BY <1>0, <1>1, <1>10 DEF PollFires, Refresh
  <2> QED BY <1>10, <2>1, RingStays DEF PollFires
<1>11. ASSUME Drawn, deed' \in UnderDeed, polls' \in 0..MaxPolls PROVE OpsBoardInv'
  <2>1. OpsBoardTypeOK' BY <1>0, <1>1, <1>11, DrawnKeeps
  <2> QED BY <1>11, <2>1, DrawnKeeps DEF OpsBoardInv
<1>12. ASSUME NotDrawn, deed' \in UnderDeed, polls' \in 0..MaxPolls PROVE OpsBoardInv'
  <2>1. OpsBoardTypeOK' BY <1>0, <1>1, <1>12 DEF NotDrawn
  <2> QED BY <1>12, <2>1, RingStays DEF NotDrawn
<1>13. CASE PollAnswered
  <2>1. deed' \in UnderDeed /\ polls' \in 0..MaxPolls BY <1>0, <1>13 DEF PollAnswered
  <2> QED BY <1>11, <1>12, <1>13, <2>1 DEF PollAnswered
<1>14. CASE ClosesCard
  <2>1. OpsBoardTypeOK' BY <1>0, <1>1, <1>14 DEF ClosesCard
  <2> QED BY <1>0, <1>14, <2>1, RingStays DEF ClosesCard
<1>15. CASE Silences
  <2>1. OpsBoardTypeOK' BY <1>0, <1>1, <1>15 DEF Silences, RingsOn
  <2> QED BY <1>15, <2>1, RingStays DEF Silences, RingsOn
<1>16. CASE Enters
  <2>1. OpsBoardTypeOK' BY <1>0, <1>1, <1>2, <1>16 DEF Enters
  <2>2. rings # NoWatch => stray
    BY <1>16 DEF Enters, OpsBoardInv, RingsForAWaitingRequest
  <2> QED BY <1>16, <2>1, <2>2
          DEF Enters, OpsBoardInv, PrimedInv, RingsForAWaitingRequest
<1>17. CASE LeavesPage
  <2>1. OpsBoardTypeOK' BY <1>0, <1>1, <1>2, <1>17 DEF LeavesPage, RingsOn
  <2> QED BY <1>17, <2>1, RingStays DEF LeavesPage, RingsOn
<1>18. CASE TakenFirst
  <2>1. deed # NoDeed BY <1>4, <1>18 DEF TakenFirst
  <2>2. OpsBoardTypeOK' BY <1>0, <1>1, <1>3, <1>5, <1>18, <2>1 DEF TakenFirst
  <2> QED BY <1>18, <2>2, RingStays DEF TakenFirst
<1>19. CASE DeedDone
  <2>1. deed # NoDeed BY <1>4, <1>19 DEF DeedDone
  <2>2. deed' \in UnderDeed BY <1>3, <1>4, <1>19, <2>1 DEF DeedDone, Awaits
  <2>3. owned' \subseteq Watched BY <1>0, <1>5, <1>19, <2>1 DEF DeedDone, Holds
  <2>4. OpsBoardTypeOK' BY <1>0, <1>1, <1>19, <2>2, <2>3 DEF DeedDone
  <2> QED BY <1>0, <1>19, <2>4, RingStays DEF DeedDone
<1>20. CASE DeedRefused
  <2>1. deed # NoDeed BY <1>4, <1>20 DEF DeedRefused
  <2>2. deed' \in UnderDeed BY <1>3, <1>4, <1>20, <2>1 DEF DeedRefused, Awaits
  <2>3. OpsBoardTypeOK' BY <1>0, <1>1, <1>20, <2>2 DEF DeedRefused
  <2> QED BY <1>20, <2>3, RingStays DEF DeedRefused
<1>21. CASE DeedReads
  <2>1. deed # NoDeed BY <1>4, <1>21 DEF DeedReads
  <2>2. deed' \in UnderDeed /\ polls' \in 0..MaxPolls
    BY <1>0, <1>3, <1>4, <1>21, <2>1 DEF DeedReads
  <2> QED BY <1>11, <1>12, <1>21, <2>2 DEF DeedReads
<1>22. CASE DeedLists
  <2>1. OpsBoardTypeOK' BY <1>0, <1>1, <1>4, <1>22 DEF DeedLists
  <2> QED BY <1>22, <2>1, RingStays DEF DeedLists
<1> QED BY <1>6, <1>7, <1>8, <1>9, <1>10, <1>13, <1>14, <1>15, <1>16, <1>17, <1>18, <1>19,
           <1>20, <1>21, <1>22
        DEF OpsBoardNext

-----------------------------------------------------------------------------
(* The admin page                                                           *)

\* Live Riders' timer, which looks at nothing, runs only with its section up.
LiveTimerInv == "live-riders" \in timers => onScreen = "live-riders"

\* Pictures belong to a review, and to the driver drawn unless one came late; a
\* campaign drawn late is not the chosen one; an open review or drawer is of the
\* subject its buttons act on.
PictureInv == thumbs # {} \/ photo # NoSubject => followed = "review"
ThumbsInv == ~late => \A x \in thumbs : x = painted
CampaignPaneInv ==
    followed = "campaign" /\ painted # NoSubject /\ painted # chosen => late
ChosenInv ==
    followed \in {"review", "drawer"} /\ open /\ painted # NoSubject => chosen = painted

\* A review is asked for by its driver: only the drawer draws ledgers.
LedgerInv == NoSubject \in asked => followed # "review"

PaneInv == PictureInv /\ ThumbsInv /\ CampaignPaneInv /\ ChosenInv /\ LedgerInv
ConsoleInv == ConsoleTypeOK /\ LiveTimerInv /\ PaneInv /\ ConsoleTellsTheTruth

\* The parts of the type that the timers, and a pane, move.
TimerTypes ==
    /\ onScreen \in Sections /\ tab \in {"dashboard", "campaigns"} /\ timers \subseteq Timed
    /\ settling \subseteq {"park-ops", "communications"} /\ ticked \in BOOLEAN
SentType == [on : Someone, shown : Someone, late : BOOLEAN]
PaneTypes ==
    /\ open \in BOOLEAN /\ chosen \in Someone /\ painted \in Someone /\ photo \in Someone
    /\ thumbs \subseteq Subjects /\ asked \subseteq Someone
    /\ acting \subseteq Subjects /\ late \in BOOLEAN /\ sent \in SentType

LEMMA ConsoleTypes ==
    ConsoleTypeOK <=> /\ followed \in Panes \cup {"timers"}
                      /\ signed \in {"out", "in", "ending"} /\ TimerTypes /\ PaneTypes
BY DEF ConsoleTypeOK, TimerTypes, PaneTypes, SentType

LEMMA ConsoleInvInit == ConsoleInit => ConsoleInv
<1> SUFFICES ASSUME ConsoleInit PROVE ConsoleInv OBVIOUS
<1>1. TimerTypes BY DEF ConsoleInit, TimerTypes, Sections, Timed
<1>2. sent \in SentType BY DEF ConsoleInit, SentType, NoAction, Someone
<1>3. PaneTypes BY <1>2 DEF ConsoleInit, PaneTypes, Someone
<1>4. ConsoleTypeOK BY <1>1, <1>3, ConsoleTypes DEF ConsoleInit
<1>5. LiveTimerInv BY DEF ConsoleInit, LiveTimerInv
<1>6. PaneInv
  BY DEF ConsoleInit, PaneInv, PictureInv, ThumbsInv, CampaignPaneInv, ChosenInv, LedgerInv
<1>7. ConsoleTellsTheTruth
  BY DEF ConsoleInit, ConsoleTellsTheTruth, ActsOnWhatIsShown, PhotoIsTheirs,
         PollsOnScreen, NoAction
<1> QED BY <1>4, <1>5, <1>6, <1>7 DEF ConsoleInv

\* A timer's request is for the section on screen.
LEMMA TimersKeep ==
    ASSUME ConsoleInv, TimersNext
    PROVE  TimerTypes' /\ LiveTimerInv' /\ PollsOnScreen'
<1>0. TimerTypes /\ LiveTimerInv /\ PollsOnScreen
  BY ConsoleTypes DEF ConsoleInv, ConsoleTellsTheTruth
<1>1. ASSUME NEW s \in Sections, SwitchSection(s)
      PROVE  TimerTypes' /\ LiveTimerInv' /\ PollsOnScreen'
  BY <1>0, <1>1 DEF SwitchSection, Survive, TimerTypes, LiveTimerInv, PollsOnScreen,
                    Sections, Timed
<1>2. ASSUME NEW s \in Sections, Settles(s)
      PROVE  TimerTypes' /\ LiveTimerInv' /\ PollsOnScreen'
  BY <1>0, <1>2 DEF Settles, TimerTypes, LiveTimerInv, PollsOnScreen, Timed
<1>3. ASSUME NEW s \in Sections, Ticks(s)
      PROVE  TimerTypes' /\ LiveTimerInv' /\ PollsOnScreen'
  <2>1. Looks(s) => ticked' = TRUE
    BY <1>0, <1>3 DEF Ticks, Looks, Shows, LiveTimerInv
  <2> QED BY <1>0, <1>3, <2>1 DEF Ticks, TimerTypes, LiveTimerInv, PollsOnScreen
<1>4. CASE OpenParkOps
  BY <1>0, <1>4 DEF OpenParkOps, Survive, TimerTypes, LiveTimerInv, PollsOnScreen,
                    Sections, Timed
<1>5. CASE CcSwitch
  BY <1>0, <1>5 DEF CcSwitch, TimerTypes, LiveTimerInv, PollsOnScreen
<1>6. CASE CcOpens
  BY <1>0, <1>6 DEF CcOpens, TimerTypes, LiveTimerInv, PollsOnScreen
<1>7. CASE ToggleAutoRefresh
  BY <1>0, <1>7 DEF ToggleAutoRefresh, TimerTypes, LiveTimerInv, PollsOnScreen, Timed
<1> QED BY <1>1, <1>2, <1>3, <1>4, <1>5, <1>6, <1>7 DEF TimersNext

\* A pane keeps to one subject.
PaneSays == PaneInv /\ ActsOnWhatIsShown /\ PhotoIsTheirs

LEMMA PaneKeeps ==
    ASSUME ConsoleInv, PaneNext, followed # "timers"
    PROVE  /\ PaneTypes' /\ PaneSays' /\ signed' \in {signed, "ending"}
<1> DEFINE Goal == PaneTypes' /\ PaneSays' /\ signed' \in {signed, "ending"}
<1>0. /\ PaneTypes /\ PaneInv /\ ActsOnWhatIsShown /\ PhotoIsTheirs
      /\ followed \in Panes /\ followed' = followed
  BY ConsoleTypes DEF ConsoleInv, ConsoleTellsTheTruth, PaneNext
<1>1. Subjects \subseteq Someone /\ NoSubject \in Someone /\ NoSubject \notin Subjects
  BY AdminConsoleAssumption DEF Someone, AdminConsoleAssumption
<1> DEFINE Says == /\ PictureInv' /\ ThumbsInv' /\ CampaignPaneInv' /\ ChosenInv'
                   /\ LedgerInv' /\ ActsOnWhatIsShown' /\ PhotoIsTheirs'
<1>2. ASSUME Says PROVE PaneSays' BY <1>2 DEF PaneSays, PaneInv
<1> USE DEF PaneInv, PictureInv, ThumbsInv, CampaignPaneInv, ChosenInv, LedgerInv,
            ActsOnWhatIsShown, PhotoIsTheirs
<1>3. ASSUME NEW x \in Subjects, OpensSubject(x), UNCHANGED signed PROVE Goal
  <2>1. PaneTypes' BY <1>0, <1>1, <1>3 DEF OpensSubject, Paint, PaneTypes
  <2>2. Says BY <1>0, <1>1, <1>3 DEF OpensSubject, Paint
  <2> QED BY <1>2, <1>3, <2>1, <2>2
<1>4. ASSUME NEW x \in Subjects, OpensVoid(x), UNCHANGED signed PROVE Goal
  <2>1. PaneTypes' BY <1>0, <1>1, <1>4 DEF OpensVoid, PaneTypes
  <2>2. Says BY <1>0, <1>4 DEF OpensVoid
  <2> QED BY <1>2, <1>4, <2>1, <2>2
<1>5. ASSUME NEW x \in Subjects, ThumbArrives(x) PROVE Goal
  <2>1. PaneTypes' BY <1>0, <1>1, <1>5 DEF ThumbArrives, PaneTypes
  <2>2. Says BY <1>0, <1>5 DEF ThumbArrives
  <2>3. signed' = signed BY <1>5 DEF ThumbArrives
  <2> QED BY <1>2, <2>1, <2>2, <2>3
<1>6. ASSUME NEW x \in Subjects, UploadDone(x) PROVE Goal
  <2>1. PaneTypes' BY <1>0, <1>1, <1>6 DEF UploadDone, PaneTypes
  <2>2. Says BY <1>0, <1>6 DEF UploadDone
  <2>3. signed' = signed BY <1>6 DEF UploadDone
  <2> QED BY <1>2, <2>1, <2>2, <2>3
<1>7. ASSUME NEW x \in Subjects, Acts(x) PROVE Goal
  <2>1. /\ sent' = [on |-> x, shown |-> painted, late |-> late]
        /\ acting' = acting \cup {x}
        /\ UNCHANGED <<signed, open, chosen, painted, photo, thumbs, asked, late>>
    BY <1>7 DEF Acts
  <2>2. PaneTypes' BY <1>0, <1>1, <2>1 DEF PaneTypes, SentType
  <2>3. x # painted => followed = "campaign" /\ late
    BY <1>0, <1>7 DEF Acts, Targets, Panes
  <2>4. Says BY <1>0, <2>1, <2>3
  <2> QED BY <1>2, <2>1, <2>2, <2>4
<1>8. ASSUME NEW x \in Subjects, ActDone(x) PROVE Goal
  <2>1. /\ acting' \in {acting \ {x}, acting} /\ sent' = sent
        /\ signed' \in {signed, "ending"}
    BY <1>8 DEF ActDone, Throws
  <2>2. \/ UNCHANGED <<open, chosen, painted, photo, thumbs, asked, late>>
        \/ /\ followed \in {"review", "void"} /\ Shut
           /\ UNCHANGED <<painted, photo, thumbs, asked, late>>
        \/ /\ followed \in {"campaign", "park"} /\ chosen' \in {x, chosen}
           /\ asked' \in {asked \cup {x}, asked \cup {chosen}}
           /\ Paint(NoSubject) /\ open' = TRUE /\ late' = FALSE /\ thumbs' = thumbs
    BY <1>0, <1>8 DEF ActDone, Panes
  <2>3. PaneTypes' BY <1>0, <1>1, <2>1, <2>2 DEF PaneTypes, Paint, Shut
  <2>4. Says BY <1>0, <2>1, <2>2 DEF Paint, Shut
  <2> QED BY <1>2, <2>1, <2>3, <2>4
<1>9. ASSUME NEW x \in Someone, Answered(x) PROVE Goal
  <2>1. asked' \in {asked \ {x}, asked} /\ UNCHANGED <<acting, sent>>
        /\ signed' \in {signed, "ending"}
    BY <1>9 DEF Answered, NotPainted, Throws
  <2>2. CASE Painted(x)
    <3>1. thumbs' \subseteq Subjects
      BY <1>0, <1>1, <1>9, <2>2 DEF Painted, Someone, Answered
    <3>2. PaneTypes' BY <1>0, <1>1, <2>1, <2>2, <3>1 DEF PaneTypes, Painted, Paint, Chooses
    <3>3. Says BY <1>0, <2>1, <2>2 DEF Painted, Paint, Chooses
    <3> QED BY <1>2, <2>1, <3>2, <3>3
  <2>3. CASE NotPainted
    <3>1. PaneTypes' BY <1>0, <1>1, <2>1, <2>3 DEF PaneTypes, NotPainted
    <3>2. Says BY <1>0, <2>1, <2>3 DEF NotPainted
    <3> QED BY <1>2, <2>1, <3>1, <3>2
  <2> QED BY <1>9, <2>2, <2>3 DEF Answered
<1>10. ASSUME OpensLedger, UNCHANGED signed PROVE Goal
  <2>1. PaneTypes' BY <1>0, <1>1, <1>10 DEF OpensLedger, PaneTypes
  <2>2. Says BY <1>0, <1>10 DEF OpensLedger
  <2> QED BY <1>2, <1>10, <2>1, <2>2
<1>11. CASE Closes
  <2>1. PaneTypes' BY <1>0, <1>1, <1>11 DEF Closes, Shut, PaneTypes
  <2>2. Says BY <1>0, <1>11 DEF Closes, Shut
  <2>3. signed' = signed BY <1>11 DEF Closes
  <2> QED BY <1>2, <2>1, <2>2, <2>3
<1> QED BY <1>3, <1>4, <1>5, <1>6, <1>7, <1>8, <1>9, <1>10, <1>11 DEF PaneNext

LEMMA ConsoleInvStep == ConsoleInv /\ [ConsoleNext]_consoleVars => ConsoleInv'
<1> SUFFICES ASSUME ConsoleInv, [ConsoleNext]_consoleVars PROVE ConsoleInv' OBVIOUS
<1>0. /\ ConsoleTypeOK /\ TimerTypes /\ PaneTypes /\ LiveTimerInv /\ PaneInv
      /\ ActsOnWhatIsShown /\ PhotoIsTheirs /\ PollsOnScreen
      /\ followed \in Panes \cup {"timers"} /\ signed \in {"out", "in", "ending"}
  BY ConsoleTypes DEF ConsoleInv, ConsoleTellsTheTruth
<1>1. ASSUME followed' = followed, signed' \in {"out", "in", "ending"},
             TimerTypes', PaneTypes', LiveTimerInv', PollsOnScreen', PaneSays'
      PROVE  ConsoleInv'
  <2>1. ConsoleTypeOK' BY <1>0, <1>1, ConsoleTypes DEF ConsoleTypeOK, TimerTypes,
                          PaneTypes, SentType
  <2> QED BY <1>1, <2>1 DEF ConsoleInv, ConsoleTellsTheTruth, PaneSays
<1>2. PaneSays BY <1>0 DEF PaneSays
<1>3. UNCHANGED paneVars /\ followed' = followed => PaneTypes' /\ PaneSays'
  BY <1>0, <1>2 DEF paneVars, PaneTypes, PaneSays, PaneInv, PictureInv, ThumbsInv,
              CampaignPaneInv, ChosenInv, LedgerInv, ActsOnWhatIsShown, PhotoIsTheirs
<1>4. UNCHANGED timerVars => TimerTypes' /\ LiveTimerInv' /\ PollsOnScreen'
  BY <1>0 DEF timerVars, TimerTypes, LiveTimerInv, PollsOnScreen
<1>5. CASE ConsoleStarts
  <2>1. /\ timers' = {"overview"} /\ signed' = "in"
        /\ UNCHANGED <<followed, onScreen, tab, settling, ticked, paneVars>>
    BY <1>5 DEF ConsoleStarts
  <2>2. TimerTypes' /\ LiveTimerInv' /\ PollsOnScreen'
    BY <1>0, <2>1 DEF TimerTypes, LiveTimerInv, PollsOnScreen, Timed
  <2> QED BY <1>1, <1>3, <2>1, <2>2
<1>6. CASE SessionOver BY <1>1, <1>3, <1>4, <1>6 DEF SessionOver
<1>7. CASE StartsOver
  <2>1. TimerTypes' /\ LiveTimerInv' /\ PollsOnScreen'
    BY <1>0, <1>7 DEF StartsOver, TimerTypes, LiveTimerInv, PollsOnScreen, Sections, Timed
  <2>2. PaneTypes' BY <1>0, <1>7 DEF StartsOver, PaneTypes, Someone
  <2>3. PaneSays'
    BY <1>0, <1>7 DEF StartsOver, PaneSays, PaneInv, PictureInv, ThumbsInv,
                      CampaignPaneInv, ChosenInv, LedgerInv, ActsOnWhatIsShown,
                      PhotoIsTheirs
  <2> QED BY <1>1, <1>7, <2>1, <2>2, <2>3 DEF StartsOver
<1>8. CASE TimersNext
  <2>1. UNCHANGED <<followed, signed, paneVars>> BY <1>8 DEF TimersNext, sessionOfPage
  <2> QED BY <1>0, <1>1, <1>3, <1>8, <2>1, TimersKeep
<1>9. CASE followed # "timers" /\ PaneNext
  <2>1. followed' = followed /\ UNCHANGED timerVars BY <1>9 DEF PaneNext
  <2> QED BY <1>0, <1>1, <1>4, <1>9, <2>1, PaneKeeps
<1>10. CASE UNCHANGED consoleVars
  <2>1. UNCHANGED <<followed, signed, timerVars, paneVars>>
    BY <1>10 DEF consoleVars, sessionOfPage
  <2> QED BY <1>0, <1>1, <1>3, <1>4, <2>1
<1> QED BY <1>5, <1>6, <1>7, <1>8, <1>9, <1>10 DEF ConsoleNext

-----------------------------------------------------------------------------
(* An account and its sessions                                              *)

\* A row is whole: what it says of the person goes together.
WholeRow(row) ==
    /\ row.status = "none" => row = NoStaff
    /\ row.status # "none" => /\ row.version # 0
                              /\ row.password \/ row.setup # 0 \/ annals.retired
    /\ row.status \in {"active", "locked"} => row.password
    /\ row.status = "invited" => ~row.password
    /\ row.password => row.setup = 0
    /\ row.setup <= letters.made

\* What a handler relies on between its read and its write.
ReadRight(c) ==
    /\ c.at \in {"save", "open"} => c.row.status # "none"
    /\ c.at = "save" /\ c.op \in {"setup", "login"} =>
          c.row.status \notin {"suspended", "deactivated"}
    /\ c.at = "save" /\ c.op \in {"reactivate", "reset"} => c.row.status # "deactivated"
    /\ c.at = "save" /\ c.op = "setup" => c.letter # 0
    /\ c.at = "answer" \/ (c.op = "reset" /\ c.at \in {"bump", "revoke"}) => c.letter # 0
    /\ c.letter <= letters.made
    /\ c.at \in {"save", "bump"} => account # NoStaff

\* A request with a session, and what it came with.
CameRight(c) ==
    /\ c.at \in {"staff", "rotate", "session", "in"} =>
          c.pass \in Pass /\ passes[c.pass].version # 0
    /\ c.at \in {"session", "in"} => c.op = "call"
    /\ "outdated" \in c.came => annals.wroteBack
    /\ "ended" \in c.came => c.pass \in annals.ended
    /\ c.at = "in" /\ "ended" \in c.came => c.pass \in annals.revived

\* As long as no bump was written back, a row in hand is not ahead of the account,
\* and one that is level with it has no link that was used.
RowBehind(row) ==
    ~annals.wroteBack =>
        /\ row.version <= account.version
        /\ row.version = account.version => row.setup \notin annals.spent

OfficeInv ==
    \A o \in Officers : /\ WholeRow(officer[o].row) /\ RowBehind(officer[o].row)
                        /\ ReadRight(officer[o]) /\ CameRight(officer[o])
LettersInv == /\ 0 \notin annals.spent /\ 0 \notin letters.handed
              /\ \A l \in annals.spent \cup letters.handed : l <= letters.made
PassesInv ==
    \A p \in Pass : /\ passes[p].version = 0 => ~passes[p].live /\ p \notin annals.ended
                    /\ passes[p].live /\ p \in annals.ended => p \in annals.revived
VersionInv ==
    /\ account = NoStaff => annals.outdated = 0
    /\ account # NoStaff /\ ~annals.wroteBack => annals.outdated < account.version
AccountsInv == /\ AccountsTypeOK /\ WholeRow(account) /\ RowBehind(account)
               /\ OfficeInv /\ LettersInv /\ PassesInv /\ VersionInv

LEMMA NoOfficeRight ==
    ASSUME AccountsTypeOK, LettersInv
    PROVE  /\ WholeRow(NoOffice.row) /\ RowBehind(NoOffice.row)
           /\ ReadRight(NoOffice) /\ CameRight(NoOffice) /\ NoOffice \in Office
<1>1. NoOffice.row = NoStaff /\ NoOffice.at = "idle" /\ NoOffice.came = {}
      /\ NoOffice.letter = 0 /\ NoOffice.pass = 0 /\ NoOffice.op = "none"
  BY DEF NoOffice
<1>2. /\ NoStaff.status = "none" /\ NoStaff.password = FALSE /\ NoStaff.setup = 0
      /\ NoStaff.version = 0
  BY DEF NoStaff
<1>3. letters.made \in Nat /\ account.version \in Nat /\ 0 \in Letter /\ 0 \in Version
  BY AccountsAssumption DEF AccountsTypeOK, Letter, Version, StaffUser
<1>4. WholeRow(NoStaff)
  BY <1>2, <1>3 DEF WholeRow
<1>5. RowBehind(NoStaff)
  BY <1>2, <1>3 DEF RowBehind, LettersInv
<1>6. ReadRight(NoOffice) /\ CameRight(NoOffice)
  BY <1>1, <1>3 DEF ReadRight, CameRight
<1>7. NoOffice \in Office
  BY <1>3, AccountsAssumption DEF NoOffice, NoStaff, Office, StaffUser, OfficeOp, OfficePoint, StaffStatus
<1> QED
  BY <1>1, <1>4, <1>5, <1>6, <1>7

LEMMA AccountsStart == ASSUME AccountsInit PROVE AccountsInv
<1>1. AccountsTypeOK
  <2>1. NoStaff \in StaffUser /\ NoPass \in StaffPass
    BY AccountsAssumption DEF NoStaff, NoPass, StaffUser, StaffPass, StaffStatus, Letter, Version
  <2>2. account \in StaffUser
    <3>1. [status |-> "active", password |-> TRUE, setup |-> 0, version |-> 2] \in StaffUser
      BY AccountsAssumption DEF StaffUser, StaffStatus, Letter, Version
    <3> QED BY <2>1, <3>1 DEF AccountsInit
  <2>3. passes \in [Pass -> StaffPass]
    <3>1. [live |-> TRUE, version |-> 2] \in StaffPass
      BY AccountsAssumption DEF StaffPass, Version
    <3> QED BY <2>1, <3>1 DEF AccountsInit
  <2>4. NoOffice \in Office
    BY <2>1, AccountsAssumption DEF NoOffice, Office, OfficeOp, OfficePoint, Letter
  <2>5. officer \in [Officers -> Office]
    BY <2>4 DEF AccountsInit
  <2>6. letters \in [made : Letter, handed : SUBSET Letter] /\ annals \in Annals
    BY AccountsAssumption DEF AccountsInit, Letter, Annals, Version
  <2> QED
    BY <2>2, <2>3, <2>5, <2>6, AccountsAssumption DEF AccountsInit, AccountsTypeOK
<1>2. LettersInv
  BY DEF AccountsInit, LettersInv
<1>3. OfficeInv
  BY <1>1, <1>2, NoOfficeRight DEF AccountsInit, OfficeInv
<1>4. WholeRow(account) /\ RowBehind(account) /\ VersionInv
  BY DEF AccountsInit, WholeRow, RowBehind, VersionInv, NoStaff
<1>5. PassesInv
  BY DEF AccountsInit, PassesInv, NoPass
<1> QED
  BY <1>1, <1>2, <1>3, <1>4, <1>5 DEF AccountsInv

\* A request is taken in hand: nothing else changes.
LEMMA TakingKeeps ==
    ASSUME AccountsInv, NEW o \in Officers, NEW c \in Office, c.row = account,
           ReadRight(c), CameRight(c), officeOps < MaxOfficeOps, officeOps' = officeOps + 1,
           officer' = [officer EXCEPT ![o] = c], UNCHANGED <<account, passes, letters, annals>>
    PROVE  AccountsInv'
<1>1. AccountsTypeOK'
  BY AccountsAssumption DEF AccountsInv, AccountsTypeOK
<1>2. OfficeInv'
  <2> SUFFICES ASSUME NEW q \in Officers
               PROVE  /\ WholeRow(officer[q].row)' /\ RowBehind(officer[q].row)'
                      /\ ReadRight(officer[q])' /\ CameRight(officer[q])'
    BY Zenon DEF OfficeInv
  <2>1. officer'[q] = officer[q] \/ officer'[q] = c
    BY DEF AccountsInv, AccountsTypeOK
  <2>2. WholeRow(officer'[q].row) /\ RowBehind(officer'[q].row)
        /\ ReadRight(officer'[q]) /\ CameRight(officer'[q])
    BY <2>1 DEF AccountsInv, OfficeInv
  <2> QED
    BY <2>2 DEF WholeRow, RowBehind, ReadRight, CameRight
<1>3. /\ WholeRow(account)' /\ RowBehind(account)'
      /\ LettersInv' /\ PassesInv' /\ VersionInv'
  BY DEF AccountsInv, WholeRow, RowBehind, LettersInv, PassesInv, VersionInv
<1> QED
  BY <1>1, <1>2, <1>3 DEF AccountsInv

LEMMA TakesKeeps ==
    ASSUME AccountsInv, NEW o \in Officers, NEW op \in OfficeOp, NEW at \in OfficePoint,
           NEW l \in Letter, NEW p \in 0..MaxPasses, Takes(o, op, at, l, p),
           at \in {"save", "bump"} => account # NoStaff,
           at = "save" /\ op \in {"setup", "login"} =>
                account.status \notin {"suspended", "deactivated"},
           at = "save" /\ op \in {"reactivate", "reset"} => account.status # "deactivated",
           at = "save" /\ op = "setup" => l # 0,
           at \in {"bump", "revoke"} => op # "reset",
           at \notin {"open", "answer", "rotate", "session", "in"}, l <= letters.made,
           at = "staff" => p \in Pass /\ passes[p].version # 0
    PROVE  AccountsInv'
<1> DEFINE c == [op |-> op, at |-> at, row |-> account, letter |-> l, pass |-> p, came |-> {}]
<1>1. c \in Office /\ c.row = account
  BY DEF AccountsInv, AccountsTypeOK, Office
<1>2. ReadRight(c)
  <2>1. account # NoStaff => account.status # "none"
    BY DEF AccountsInv, WholeRow
  <2> QED BY <2>1 DEF ReadRight
<1>3. CameRight(c)
  BY DEF CameRight
<1>4. /\ officer' = [officer EXCEPT ![o] = c] /\ officeOps < MaxOfficeOps
      /\ officeOps' = officeOps + 1 /\ UNCHANGED <<account, passes, letters, annals>>
  BY DEF Takes
<1> HIDE DEF c
<1> QED
  BY <1>1, <1>2, <1>3, <1>4, TakingKeeps

LEMMA TakesAccounts ==
    ASSUME AccountsInv, NEW o \in Officers,
           \/ CreateStaff(o) \/ CompleteSetup(o) \/ UpdateProfile(o) \/ Suspend(o)
           \/ Deactivate(o) \/ Reactivate(o) \/ ResetCredentials(o) \/ SetRoles(o)
           \/ Kick(o) \/ Login(o) \/ RefreshRead(o) \/ Call(o)
    PROVE  AccountsInv'
<1>0. /\ letters.made \in Nat /\ 0 \in Letter /\ 0 \in 0..MaxPasses
      /\ 0 <= letters.made
  BY AccountsAssumption DEF AccountsInv, AccountsTypeOK, Letter
<1>1. CASE CreateStaff(o)
  <2>1. Takes(o, "create", "insert", 0, 0) /\ "create" \in OfficeOp /\ "insert" \in OfficePoint
    BY <1>1 DEF CreateStaff, OfficeOp, OfficePoint
  <2> QED BY <1>0, <2>1, TakesKeeps
<1>2. CASE CompleteSetup(o)
  <2>1. PICK l \in letters.handed :
          /\ l # 0 /\ account.setup = l /\ account.status \notin {"suspended", "deactivated"}
          /\ Takes(o, "setup", "save", l, 0)
    BY <1>2 DEF CompleteSetup
  <2>2. l \in Letter /\ l <= letters.made /\ account # NoStaff
    BY <2>1 DEF AccountsInv, AccountsTypeOK, LettersInv, NoStaff
  <2>3. "setup" \in OfficeOp /\ "save" \in OfficePoint
    BY DEF OfficeOp, OfficePoint
  <2> QED BY <1>0, <2>1, <2>2, <2>3, TakesKeeps
<1>3. ASSUME NEW op \in {"profile", "suspend", "deactivate", "reactivate", "reset"},
             Hired, op \in {"reactivate", "reset"} => account.status # "deactivated",
             Takes(o, op, "save", 0, 0)
      PROVE  AccountsInv'
  <2>1. op \in OfficeOp /\ "save" \in OfficePoint
    BY <1>3 DEF OfficeOp, OfficePoint, Barring
  <2>2. op \notin {"setup", "login"} /\ account # NoStaff
    BY <1>3 DEF Hired
  <2> QED BY <1>0, <1>3, <2>1, <2>2, TakesKeeps
<1>4. CASE UpdateProfile(o) \/ Suspend(o) \/ Deactivate(o) \/ Reactivate(o) \/ ResetCredentials(o)
  BY <1>3, <1>4 DEF UpdateProfile, Suspend, Deactivate, Reactivate, ResetCredentials
<1>5. CASE SetRoles(o)
  <2>1. Takes(o, "roles", "bump", 0, 0) /\ "roles" \in OfficeOp /\ "bump" \in OfficePoint
        /\ account # NoStaff
    BY <1>5 DEF SetRoles, OfficeOp, OfficePoint, Hired
  <2> QED BY <1>0, <2>1, TakesKeeps
<1>6. CASE Kick(o)
  <2>1. Takes(o, "kick", "revoke", 0, 0) /\ "kick" \in OfficeOp /\ "revoke" \in OfficePoint
    BY <1>6 DEF Kick, OfficeOp, OfficePoint
  <2> QED BY <1>0, <2>1, TakesKeeps
<1>7. CASE Login(o)
  <2>1. account # NoStaff
    BY <1>7 DEF Login, NoStaff
  <2>2. CASE account.status \notin {"suspended", "deactivated"} /\ Takes(o, "login", "save", 0, 0)
    <3>1. "login" \in OfficeOp /\ "save" \in OfficePoint BY DEF OfficeOp, OfficePoint
    <3> QED BY <1>0, <2>1, <2>2, <3>1, TakesKeeps
  <2>3. CASE Takes(o, "wrong", "save", 0, 0)
    <3>1. "wrong" \in OfficeOp /\ "save" \in OfficePoint BY DEF OfficeOp, OfficePoint
    <3> QED BY <1>0, <2>1, <2>3, <3>1, TakesKeeps
  <2> QED BY <1>7, <2>2, <2>3 DEF Login
<1>8. CASE RefreshRead(o)
  <2>1. PICK p \in Pass : passes[p].live /\ Takes(o, "refresh", "staff", 0, p)
    BY <1>8 DEF RefreshRead
  <2>2. passes[p].version # 0 /\ p \in 0..MaxPasses
    BY <2>1, AccountsAssumption DEF AccountsInv, PassesInv, Pass
  <2>3. "refresh" \in OfficeOp /\ "staff" \in OfficePoint BY DEF OfficeOp, OfficePoint
  <2> QED BY <1>0, <2>1, <2>2, <2>3, TakesKeeps
<1>9. CASE Call(o)
  <2>1. PICK p \in Pass :
          /\ account.status = "active" /\ passes[p].version = account.version
          /\ officer[o] = NoOffice /\ officeOps < MaxOfficeOps
          /\ officer' = [officer EXCEPT ![o] =
                [op |-> "call", at |-> "session", row |-> account, letter |-> 0, pass |-> p,
                 came |-> {k \in {"ended", "outdated"} :
                             \/ k = "ended" /\ p \in annals.ended
                             \/ k = "outdated" /\ account.version <= annals.outdated}]]
          /\ officeOps' = officeOps + 1
          /\ UNCHANGED <<account, passes, letters, annals>>
    BY <1>9 DEF Call
  <2> DEFINE came == {k \in {"ended", "outdated"} :
                             \/ k = "ended" /\ p \in annals.ended
                             \/ k = "outdated" /\ account.version <= annals.outdated}
             c == [op |-> "call", at |-> "session", row |-> account, letter |-> 0, pass |-> p,
                   came |-> came]
  <2>2. c \in Office /\ c.row = account
    <3>1. p \in 0..MaxPasses BY AccountsAssumption DEF Pass
    <3>2. came \in SUBSET {"ended", "outdated"} OBVIOUS
    <3>3. "call" \in OfficeOp /\ "session" \in OfficePoint BY DEF OfficeOp, OfficePoint
    <3> HIDE DEF came
    <3> QED BY <1>0, <3>1, <3>2, <3>3 DEF Office, AccountsInv, AccountsTypeOK
  <2>3. ReadRight(c)
    BY <1>0 DEF ReadRight
  <2>4. CameRight(c)
    <3>1. account # NoStaff /\ account.version # 0
      BY <2>1 DEF NoStaff, AccountsInv, WholeRow
    <3>2. account.version \in Nat /\ annals.outdated \in Nat
      BY DEF AccountsInv, AccountsTypeOK, StaffUser, Annals, Version
    <3>3. "outdated" \in came => annals.wroteBack
      BY <3>1, <3>2 DEF AccountsInv, VersionInv
    <3>4. "ended" \in came => p \in annals.ended
      OBVIOUS
    <3> HIDE DEF came
    <3> QED BY <2>1, <3>1, <3>3, <3>4 DEF CameRight
  <2>5. officer' = [officer EXCEPT ![o] = c]
    BY <2>1
  <2> HIDE DEF c
  <2> QED
    BY <2>1, <2>2, <2>3, <2>4, <2>5, TakingKeeps
<1> QED
  BY <1>1, <1>2, <1>4, <1>5, <1>6, <1>7, <1>8, <1>9

\* What no step takes back.
Forward ==
    /\ annals.retired => annals'.retired
    /\ annals.wroteBack => annals'.wroteBack
    /\ annals.ended \subseteq annals'.ended
    /\ annals.revived \subseteq annals'.revived
    /\ letters.made <= letters'.made
    /\ account # NoStaff => account' # NoStaff
    /\ \A p \in Pass : passes[p].version # 0 => passes'[p].version # 0
    /\ ~annals'.wroteBack =>
          \/ account.version < account'.version
          \/ account.version = account'.version /\ annals.spent = annals'.spent

LEMMA RowGoesOn ==
    ASSUME AccountsTypeOK, AccountsTypeOK', Forward, NEW row \in StaffUser,
           WholeRow(row), RowBehind(row)
    PROVE  WholeRow(row)' /\ RowBehind(row)'
<1>1. /\ row.version \in Nat /\ account.version \in Nat /\ account'.version \in Nat
      /\ row.setup \in Nat /\ letters.made \in Nat /\ letters'.made \in Nat
  BY DEF AccountsTypeOK, StaffUser, Version, Letter
<1>2. WholeRow(row)'
  BY <1>1 DEF WholeRow, Forward
<1>3. RowBehind(row)'
  BY <1>1 DEF RowBehind, Forward
<1> QED
  BY <1>2, <1>3

LEMMA RequestGoesOn ==
    ASSUME AccountsTypeOK, AccountsTypeOK', Forward, NEW c \in Office, ReadRight(c), CameRight(c)
    PROVE  ReadRight(c)' /\ CameRight(c)'
<1>1. c.letter \in Nat /\ letters.made \in Nat /\ letters'.made \in Nat
  BY DEF AccountsTypeOK, Office, Letter
<1>2. ReadRight(c)'
  BY <1>1 DEF ReadRight, Forward
<1>3. CameRight(c)'
  BY DEF CameRight, Forward
<1> QED
  BY <1>2, <1>3

LEMMA OfficeGoesOn ==
    ASSUME AccountsInv, AccountsTypeOK', Forward, NEW o \in Officers, NEW c \in Office,
           officer' = [officer EXCEPT ![o] = c], c.row = officer[o].row,
           ReadRight(c)', CameRight(c)'
    PROVE  OfficeInv'
<1> SUFFICES ASSUME NEW q \in Officers
             PROVE  /\ WholeRow(officer[q].row)' /\ RowBehind(officer[q].row)'
                    /\ ReadRight(officer[q])' /\ CameRight(officer[q])'
  BY Zenon DEF OfficeInv
<1> DEFINE r == officer[q].row
           d == officer[q]
<1>1. d \in Office /\ r \in StaffUser /\ AccountsTypeOK
  BY DEF AccountsInv, AccountsTypeOK, Office
<1>2. WholeRow(r) /\ RowBehind(r) /\ ReadRight(d) /\ CameRight(d)
  BY DEF AccountsInv, OfficeInv
<1>3. officer'[q].row = r /\ (officer'[q] = d \/ officer'[q] = c)
  BY DEF AccountsInv, AccountsTypeOK
<1> HIDE DEF r, d
<1>4. /\ \A w \in StaffUser : w = r => WholeRow(w)' /\ RowBehind(w)'
      /\ \A e \in Office : e = d => ReadRight(e)' /\ CameRight(e)'
  BY <1>1, <1>2, RowGoesOn, RequestGoesOn
<1>5. /\ \A w \in StaffUser : w = officer'[q].row => WholeRow(w)' /\ RowBehind(w)'
      /\ \A e \in Office : e = officer'[q] => ReadRight(e)' /\ CameRight(e)'
  BY <1>3, <1>4
<1>6. officer'[q] \in Office /\ officer'[q].row \in StaffUser
  BY <1>1, <1>3
<1> QED
  BY <1>5, <1>6 DEF WholeRow, RowBehind, ReadRight, CameRight

LEMMA OfficeLosesOne ==
    ASSUME AccountsInv, AccountsTypeOK', Forward, NEW o \in Officers, Done(o)
    PROVE  OfficeInv'
<1> SUFFICES ASSUME NEW q \in Officers
             PROVE  /\ WholeRow(officer[q].row)' /\ RowBehind(officer[q].row)'
                    /\ ReadRight(officer[q])' /\ CameRight(officer[q])'
  BY Zenon DEF OfficeInv
<1>1. /\ AccountsTypeOK /\ LettersInv
      /\ \A e \in Office : e.row \in StaffUser
  BY DEF AccountsInv, Office
<1>2. officer'[q] \in {officer[q], NoOffice}
  BY DEF AccountsInv, AccountsTypeOK, Done
<1>3. /\ officer'[q] \in Office
      /\ WholeRow(officer'[q].row) /\ RowBehind(officer'[q].row)
      /\ ReadRight(officer'[q]) /\ CameRight(officer'[q])
  <2>1. CASE officer'[q] = officer[q]
    BY <2>1 DEF AccountsInv, OfficeInv, AccountsTypeOK
  <2>2. CASE officer'[q] = NoOffice
    BY <1>1, <2>2, NoOfficeRight
  <2> QED BY <1>2, <2>1, <2>2
<1>4. \A e \in Office : e = officer'[q] =>
         /\ WholeRow(e.row)' /\ RowBehind(e.row)' /\ ReadRight(e)' /\ CameRight(e)'
  <2> SUFFICES ASSUME NEW e \in Office, e = officer'[q]
               PROVE  /\ WholeRow(e.row)' /\ RowBehind(e.row)'
                      /\ ReadRight(e)' /\ CameRight(e)'
    BY Zenon
  <2>1. WholeRow(e.row) /\ RowBehind(e.row) /\ ReadRight(e) /\ CameRight(e) /\ e.row \in StaffUser
    BY <1>1, <1>3
  <2> QED BY <1>1, <2>1, RowGoesOn, RequestGoesOn
<1> QED
  BY <1>3, <1>4 DEF WholeRow, RowBehind, ReadRight, CameRight

\* What a step may not disturb when it leaves the account and its history alone.
LEMMA AccountStands ==
    ASSUME AccountsInv, UNCHANGED <<account, annals>>, AccountsTypeOK', LettersInv', PassesInv',
           letters.made <= letters'.made, OfficeInv'
    PROVE  AccountsInv'
<1>1. account \in StaffUser /\ account.setup \in Nat /\ letters.made \in Nat /\ letters'.made \in Nat
  BY DEF AccountsInv, AccountsTypeOK, StaffUser, Letter
<1>2. WholeRow(account)' /\ RowBehind(account)' /\ VersionInv'
  BY <1>1 DEF AccountsInv, WholeRow, RowBehind, VersionInv
<1> QED
  BY <1>2 DEF AccountsInv

LEMMA InsertsKeeps ==
    ASSUME AccountsInv, NEW o \in Officers, InsertsStaff(o)
    PROVE  AccountsInv'
<1>1. CASE Hired
  <2>1. Done(o) /\ UNCHANGED <<account, letters, passes, officeOps, annals>>
    BY <1>1 DEF InsertsStaff
  <2>2. NoOffice \in Office
    BY NoOfficeRight DEF AccountsInv
  <2>3. AccountsTypeOK'
    BY <2>1, <2>2 DEF AccountsInv, AccountsTypeOK, Done
  <2>4. Forward
    BY <2>1 DEF Forward, AccountsInv, AccountsTypeOK, Letter
  <2>5. LettersInv' /\ PassesInv'
    BY <2>1 DEF AccountsInv, LettersInv, PassesInv
  <2>6. letters.made <= letters'.made
    BY <2>4 DEF Forward
  <2> QED
    BY <2>1, <2>3, <2>4, <2>5, <2>6, OfficeLosesOne, AccountStands
<1>2. CASE ~Hired
  <2> DEFINE n == letters.made + 1
  <2>1. /\ letters.made < MaxLetters /\ letters' = [letters EXCEPT !.made = n]
        /\ account' = [status |-> "invited", password |-> FALSE, setup |-> n, version |-> 1]
        /\ officer' = [officer EXCEPT ![o].at = "answer", ![o].letter = n]
        /\ UNCHANGED <<passes, officeOps, annals>> /\ account = NoStaff
    BY <1>2 DEF InsertsStaff, Hired
  <2>2. n \in Letter /\ n \in Nat /\ n # 0 /\ letters.made \in Nat /\ letters'.made = n
    BY <2>1, AccountsAssumption DEF AccountsInv, AccountsTypeOK, Letter
  <2>3. PICK c \in Office : c = [officer[o] EXCEPT !.at = "answer", !.letter = n]
    <3>1. officer[o] \in Office BY DEF AccountsInv, AccountsTypeOK
    <3> QED BY <2>2, <3>1 DEF Office, OfficePoint
  <2>4. officer' = [officer EXCEPT ![o] = c] /\ c.row = officer[o].row
        /\ c.at = "answer" /\ c.letter = n /\ c.came = officer[o].came /\ c.pass = officer[o].pass
    BY <2>1, <2>3 DEF AccountsInv, AccountsTypeOK, Office
  <2>5. AccountsTypeOK'
    <3>1. account' \in StaffUser
      BY <2>1, <2>2, AccountsAssumption DEF StaffUser, StaffStatus, Version
    <3>2. letters' \in [made : Letter, handed : SUBSET Letter]
      BY <2>1, <2>2 DEF AccountsInv, AccountsTypeOK
    <3> QED BY <2>1, <2>4, <3>1, <3>2 DEF AccountsInv, AccountsTypeOK
  <2>6. account.version = 0 /\ account'.version = 1 /\ account'.status = "invited"
        /\ account'.password = FALSE /\ account'.setup = n /\ account' # NoStaff
    BY <2>1 DEF NoStaff
  <2>7. Forward
    BY <2>1, <2>2, <2>6 DEF Forward
  <2>8. LettersInv' /\ PassesInv'
    BY <2>1, <2>2 DEF AccountsInv, LettersInv, PassesInv, AccountsTypeOK, Letter, Annals
  <2>9. WholeRow(account)' /\ RowBehind(account)' /\ VersionInv'
    <3>1. n \notin annals.spent
      BY <2>2 DEF AccountsInv, LettersInv
    <3>2. annals.outdated = 0
      BY <2>1 DEF AccountsInv, VersionInv
    <3> QED BY <2>1, <2>2, <2>6, <3>1, <3>2 DEF WholeRow, RowBehind, VersionInv
  <2>10. ReadRight(c)' /\ CameRight(c)'
    <3>1. ReadRight(c)' BY <2>2, <2>4 DEF ReadRight
    <3>2. CameRight(officer[o]) BY DEF AccountsInv, OfficeInv
    <3>3. CameRight(c)' BY <2>1, <2>4, <3>2 DEF CameRight
    <3> QED BY <3>1, <3>3
  <2> HIDE DEF n
  <2>11. OfficeInv'
    BY <2>4, <2>5, <2>7, <2>10, OfficeGoesOn
  <2> QED
    BY <2>5, <2>8, <2>9, <2>11 DEF AccountsInv
<1> QED
  BY <1>1, <1>2

LEMMA HandsOverKeeps ==
    ASSUME AccountsInv, NEW o \in Officers, HandsOver(o)
    PROVE  AccountsInv'
<1>1. /\ officer[o].at = "answer" /\ Done(o) /\ UNCHANGED <<account, passes, officeOps, annals>>
      /\ letters' = [letters EXCEPT !.handed = @ \cup {officer[o].letter}]
  BY DEF HandsOver
<1>2. officer[o].letter \in Letter /\ officer[o].letter # 0 /\ officer[o].letter <= letters.made
  BY <1>1 DEF AccountsInv, AccountsTypeOK, Office, OfficeInv, ReadRight
<1>3. AccountsTypeOK'
  <2>1. NoOffice \in Office BY NoOfficeRight DEF AccountsInv
  <2> QED BY <1>1, <1>2, <2>1 DEF AccountsInv, AccountsTypeOK, Done
<1>4. letters'.made = letters.made /\ letters.made \in Nat
      /\ letters'.handed = letters.handed \cup {officer[o].letter}
  BY <1>1 DEF AccountsInv, AccountsTypeOK, Letter
<1>5. Forward
  BY <1>1, <1>4 DEF Forward
<1>6. LettersInv' /\ PassesInv'
  BY <1>1, <1>2, <1>4 DEF AccountsInv, LettersInv, PassesInv
<1>7. OfficeInv'
  BY <1>1, <1>3, <1>5, OfficeLosesOne
<1> QED
  BY <1>1, <1>3, <1>4, <1>6, <1>7, AccountStands

\* The requests that only move on, or end.
LEMMA MovesKeep ==
    ASSUME AccountsInv, NEW o \in Officers,
           \/ RefreshChecks(o) \/ Identified(o) \/ LogoutAll(o) \/ Ends(o)
    PROVE  AccountsInv'
<1>1. UNCHANGED <<account, passes, letters, officeOps, annals>>
  BY DEF RefreshChecks, Identified, LogoutAll, Ends
<1>2. Forward
  BY <1>1 DEF Forward, AccountsInv, AccountsTypeOK, Letter
<1>3. LettersInv' /\ PassesInv' /\ letters.made <= letters'.made
  BY <1>1 DEF AccountsInv, LettersInv, PassesInv, AccountsTypeOK, Letter
<1>4. CASE Done(o)
  <2>1. NoOffice \in Office BY NoOfficeRight DEF AccountsInv
  <2>2. AccountsTypeOK' BY <1>1, <1>4, <2>1 DEF AccountsInv, AccountsTypeOK, Done
  <2>3. OfficeInv' BY <1>2, <1>4, <2>2, OfficeLosesOne
  <2> QED BY <1>1, <1>3, <2>2, <2>3, AccountStands
<1>5. ASSUME NEW at \in OfficePoint, Turns(o, at), at \notin {"save", "open", "bump", "answer"},
             at \in {"bump", "revoke"} => officer[o].op # "reset",
             at \in {"staff", "rotate", "session", "in"} =>
                  officer[o].at \in {"staff", "rotate", "session", "in"},
             at \in {"session", "in"} => officer[o].op = "call",
             at = "in" => passes[officer[o].pass].live
      PROVE  AccountsInv'
  <2>1. PICK c \in Office : c = [officer[o] EXCEPT !.at = at]
    <3>1. officer[o] \in Office BY DEF AccountsInv, AccountsTypeOK
    <3> QED BY <3>1 DEF Office
  <2>2. officer' = [officer EXCEPT ![o] = c] /\ c.row = officer[o].row /\ c.at = at
        /\ c.letter = officer[o].letter /\ c.came = officer[o].came /\ c.pass = officer[o].pass
        /\ c.op = officer[o].op
    BY <1>5, <2>1 DEF AccountsInv, AccountsTypeOK, Office, Turns
  <2>3. ReadRight(officer[o]) /\ CameRight(officer[o])
    BY DEF AccountsInv, OfficeInv
  <2>4. ReadRight(c)
    BY <1>5, <2>2, <2>3 DEF ReadRight
  <2>5. CameRight(c)
    <3>1. at = "in" /\ "ended" \in c.came => c.pass \in annals.revived
      BY <1>5, <2>2, <2>3 DEF CameRight, AccountsInv, PassesInv
    <3> QED BY <1>5, <2>2, <2>3, <3>1 DEF CameRight
  <2>6. AccountsTypeOK'
    BY <1>1, <2>2 DEF AccountsInv, AccountsTypeOK
  <2>7. ReadRight(c)' /\ CameRight(c)'
    BY <1>2, <2>4, <2>5, <2>6, RequestGoesOn DEF AccountsInv
  <2>8. OfficeInv'
    BY <1>2, <2>2, <2>6, <2>7, OfficeGoesOn
  <2> QED BY <1>1, <1>3, <2>6, <2>8, AccountStands
<1>6. CASE RefreshChecks(o)
  <2>1. officer[o].at = "staff" /\ (Turns(o, "rotate") \/ Done(o)) /\ "rotate" \in OfficePoint
    BY <1>6 DEF RefreshChecks, OfficePoint
  <2> QED BY <1>4, <1>5, <2>1
<1>7. CASE Identified(o)
  <2>1. /\ officer[o].at = "session" /\ "in" \in OfficePoint /\ officer[o].op = "call"
        /\ (Turns(o, "in") /\ passes[officer[o].pass].live) \/ Done(o)
    BY <1>7 DEF Identified, OfficePoint, AccountsInv, OfficeInv, CameRight
  <2> QED BY <1>4, <1>5, <2>1
<1>8. CASE LogoutAll(o)
  <2>1. Turns(o, "revoke") /\ "revoke" \in OfficePoint /\ officer[o].op = "call"
    BY <1>8 DEF LogoutAll, OfficePoint, AccountsInv, OfficeInv, CameRight
  <2> QED BY <1>5, <2>1
<1>9. CASE Ends(o)
  BY <1>4, <1>9 DEF Ends
<1> QED
  BY <1>6, <1>7, <1>8, <1>9

\* Sessions are revoked, opened or written back; the account stands.
LEMMA SessionsGoOn ==
    ASSUME AccountsInv, NEW o \in Officers, UNCHANGED <<account, letters, officeOps>>,
           passes' \in [Pass -> StaffPass], annals' \in Annals,
           annals' = [annals EXCEPT !.ended = annals'.ended, !.revived = annals'.revived],
           annals.ended \subseteq annals'.ended, annals.revived \subseteq annals'.revived,
           \A p \in Pass : passes[p].version # 0 => passes'[p].version # 0,
           PassesInv',
           \/ Done(o)
           \/ /\ officer[o].at = "revoke" /\ officer[o].op = "reset" /\ officer[o].letter # 0
              /\ Turns(o, "answer")
    PROVE  AccountsInv'
<1>1. /\ annals'.outdated = annals.outdated /\ annals'.wroteBack = annals.wroteBack
      /\ annals'.spent = annals.spent /\ annals'.retired = annals.retired
  BY DEF Annals
<1>2. LettersInv' /\ WholeRow(account)' /\ RowBehind(account)' /\ VersionInv'
  BY <1>1 DEF AccountsInv, LettersInv, WholeRow, RowBehind, VersionInv
<1>3. Forward
  BY <1>1 DEF Forward, AccountsInv, AccountsTypeOK, Letter
<1>4. CASE Done(o)
  <2>1. NoOffice \in Office BY NoOfficeRight DEF AccountsInv
  <2>2. AccountsTypeOK' BY <1>4, <2>1 DEF AccountsInv, AccountsTypeOK, Done
  <2>3. OfficeInv' BY <1>3, <1>4, <2>2, OfficeLosesOne
  <2> QED BY <1>2, <2>2, <2>3 DEF AccountsInv
<1>5. CASE /\ officer[o].at = "revoke" /\ officer[o].op = "reset" /\ officer[o].letter # 0
           /\ Turns(o, "answer")
  <2>1. PICK c \in Office : c = [officer[o] EXCEPT !.at = "answer"]
    <3>1. officer[o] \in Office BY DEF AccountsInv, AccountsTypeOK
    <3> QED BY <3>1 DEF Office, OfficePoint
  <2>2. officer' = [officer EXCEPT ![o] = c] /\ c.row = officer[o].row /\ c.at = "answer"
        /\ c.letter = officer[o].letter /\ c.came = officer[o].came /\ c.pass = officer[o].pass
        /\ c.op = officer[o].op
    BY <1>5, <2>1 DEF AccountsInv, AccountsTypeOK, Office, Turns
  <2>3. AccountsTypeOK'
    BY <2>2 DEF AccountsInv, AccountsTypeOK
  <2>4. ReadRight(c) /\ CameRight(c)
    BY <1>5, <2>2 DEF AccountsInv, OfficeInv, ReadRight, CameRight
  <2>5. ReadRight(c)' /\ CameRight(c)'
    BY <1>3, <2>3, <2>4, RequestGoesOn DEF AccountsInv
  <2>6. OfficeInv'
    BY <1>3, <2>2, <2>3, <2>5, OfficeGoesOn
  <2> QED BY <1>2, <2>3, <2>6 DEF AccountsInv
<1> QED
  BY <1>4, <1>5

LEMMA RevokesKeeps ==
    ASSUME AccountsInv, NEW o \in Officers, RevokesAll(o)
    PROVE  AccountsInv'
<1>1. /\ passes' = [p \in Pass |-> [passes[p] EXCEPT !.live = FALSE]]
      /\ annals' = [annals EXCEPT !.ended = @ \cup {p \in Pass : passes[p].live}]
      /\ UNCHANGED <<account, letters, officeOps>> /\ officer[o].at = "revoke"
  BY DEF RevokesAll
<1>2. passes \in [Pass -> StaffPass] /\ annals \in Annals
  BY DEF AccountsInv, AccountsTypeOK
<1>3. /\ passes' \in [Pass -> StaffPass]
      /\ \A p \in Pass : passes'[p].version = passes[p].version /\ ~passes'[p].live
  BY <1>1, <1>2 DEF StaffPass
<1>4. /\ annals' \in Annals /\ annals'.revived = annals.revived
      /\ annals'.ended = annals.ended \cup {p \in Pass : passes[p].live}
      /\ annals' = [annals EXCEPT !.ended = annals'.ended, !.revived = annals'.revived]
  BY <1>1, <1>2 DEF Annals
<1>5. PassesInv'
  BY <1>3, <1>4 DEF AccountsInv, PassesInv
<1>6. \/ Done(o)
      \/ officer[o].op = "reset" /\ Turns(o, "answer")
  BY DEF RevokesAll
<1>7. officer[o].at = "revoke" /\ officer[o].op = "reset" => officer[o].letter # 0
  BY DEF AccountsInv, OfficeInv, ReadRight
<1> QED
  BY <1>1, <1>3, <1>4, <1>5, <1>6, <1>7, SessionsGoOn

LEMMA OpensKeeps ==
    ASSUME AccountsInv, NEW o \in Officers, OpensSession(o)
    PROVE  AccountsInv'
<1>1. PICK p \in Pass :
        /\ passes[p].version = 0
        /\ passes' = [passes EXCEPT ![p] = [live |-> TRUE, version |-> officer[o].row.version]]
  BY DEF OpensSession
<1>2. /\ Done(o) /\ UNCHANGED <<account, letters, officeOps, annals>> /\ officer[o].at = "open"
  BY DEF OpensSession
<1>3. passes \in [Pass -> StaffPass] /\ annals \in Annals /\ officer[o].row \in StaffUser
  BY DEF AccountsInv, AccountsTypeOK, Office
<1>4. officer[o].row.version \in Version /\ officer[o].row.version # 0
  BY <1>2, <1>3 DEF AccountsInv, OfficeInv, ReadRight, WholeRow, StaffUser
<1>5. /\ passes' \in [Pass -> StaffPass]
      /\ \A q \in Pass : q # p => passes'[q] = passes[q]
      /\ passes'[p].version # 0
  BY <1>1, <1>3, <1>4 DEF StaffPass
<1>6. p \notin annals.ended
  BY <1>1 DEF AccountsInv, PassesInv
<1>7. PassesInv'
  BY <1>2, <1>5, <1>6 DEF AccountsInv, PassesInv
<1>8. annals' = [annals EXCEPT !.ended = annals'.ended, !.revived = annals'.revived]
  BY <1>2, <1>3 DEF Annals
<1>9. \A q \in Pass : passes[q].version # 0 => passes'[q].version # 0
  BY <1>5
<1> QED
  BY <1>2, <1>3, <1>5, <1>7, <1>8, <1>9, SessionsGoOn

\* A session's row is written back, or revoked.
LEMMA OneSessionKeeps ==
    ASSUME AccountsInv, NEW o \in Officers, Rotates(o) \/ Logout(o)
    PROVE  AccountsInv'
<1> DEFINE p == officer[o].pass
<1>1. /\ Done(o) /\ UNCHANGED <<account, letters, officeOps>>
      /\ officer[o].at \in {"rotate", "in"}
      /\ \/ /\ passes' = [passes EXCEPT ![p].live = TRUE]
            /\ annals' = [annals EXCEPT !.revived = IF passes[p].live THEN @ ELSE @ \cup {p}]
         \/ /\ passes' = [passes EXCEPT ![p].live = FALSE]
            /\ annals' = [annals EXCEPT !.ended = @ \cup {p}]
  BY DEF Rotates, Logout
<1>2. p \in Pass /\ passes[p].version # 0
  BY <1>1 DEF AccountsInv, OfficeInv, CameRight
<1>3. passes \in [Pass -> StaffPass] /\ annals \in Annals
  BY DEF AccountsInv, AccountsTypeOK
<1> HIDE DEF p
<1>4. /\ passes' \in [Pass -> StaffPass]
      /\ \A q \in Pass : passes'[q].version = passes[q].version
      /\ \A q \in Pass : q # p => passes'[q] = passes[q]
  <2>1. PICK b \in BOOLEAN : passes' = [passes EXCEPT ![p].live = b]
    BY <1>1
  <2> QED BY <1>2, <1>3, <2>1 DEF StaffPass
<1>5. /\ annals' \in Annals
      /\ annals' = [annals EXCEPT !.ended = annals'.ended, !.revived = annals'.revived]
      /\ annals.ended \subseteq annals'.ended /\ annals.revived \subseteq annals'.revived
      /\ annals'.ended \subseteq annals.ended \cup {p}
      /\ passes'[p].live /\ p \in annals'.ended => p \in annals'.revived
  <2>1. CASE /\ passes' = [passes EXCEPT ![p].live = TRUE]
             /\ annals' = [annals EXCEPT !.revived = IF passes[p].live THEN @ ELSE @ \cup {p}]
    <3>1. annals'.ended = annals.ended
          /\ annals'.revived = IF passes[p].live THEN annals.revived ELSE annals.revived \cup {p}
      BY <1>3, <2>1 DEF Annals
    <3>2. annals' \in Annals
      BY <1>2, <1>3, <2>1 DEF Annals
    <3>3. annals' = [annals EXCEPT !.ended = annals'.ended, !.revived = annals'.revived]
      BY <1>3, <2>1, <3>1 DEF Annals
    <3>4. p \in annals'.ended => p \in annals'.revived
      BY <1>2, <3>1 DEF AccountsInv, PassesInv
    <3> QED BY <3>1, <3>2, <3>3, <3>4
  <2>2. CASE /\ passes' = [passes EXCEPT ![p].live = FALSE]
             /\ annals' = [annals EXCEPT !.ended = @ \cup {p}]
    <3>1. annals'.ended = annals.ended \cup {p} /\ annals'.revived = annals.revived
      BY <1>3, <2>2 DEF Annals
    <3>2. annals' \in Annals
      BY <1>2, <1>3, <2>2 DEF Annals
    <3>3. annals' = [annals EXCEPT !.ended = annals'.ended, !.revived = annals'.revived]
      BY <1>3, <2>2, <3>1 DEF Annals
    <3>4. ~passes'[p].live
      BY <1>2, <1>3, <2>2 DEF StaffPass
    <3> QED BY <3>1, <3>2, <3>3, <3>4
  <2> QED BY <1>1, <2>1, <2>2
<1>6. PassesInv'
  <2> SUFFICES ASSUME NEW q \in Pass
               PROVE  (/\ passes[q].version = 0 => ~passes[q].live /\ q \notin annals.ended
                       /\ passes[q].live /\ q \in annals.ended => q \in annals.revived)'
    BY Zenon DEF PassesInv
  <2>1. CASE q = p
    BY <1>2, <1>4, <1>5, <2>1
  <2>2. CASE q # p
    BY <1>4, <1>5, <2>2 DEF AccountsInv, PassesInv
  <2> QED BY <2>1, <2>2
<1>7. \A q \in Pass : passes[q].version # 0 => passes'[q].version # 0
  BY <1>4
<1> QED
  BY <1>1, <1>4, <1>5, <1>6, <1>7, SessionsGoOn

LEMMA BumpsKeeps ==
    ASSUME AccountsInv, NEW o \in Officers, BumpsVersion(o)
    PROVE  AccountsInv'
<1>1. /\ officer[o].at = "bump" /\ account.version < MaxVersion
      /\ account' = [account EXCEPT !.version = @ + 1]
      /\ annals' = [annals EXCEPT !.outdated = Later(@, account.version)]
      /\ Turns(o, "revoke") /\ UNCHANGED <<passes, letters, officeOps>>
  BY DEF BumpsVersion
<1>2. /\ account \in StaffUser /\ annals \in Annals /\ account.version \in Nat
      /\ annals.outdated \in Nat /\ account # NoStaff /\ account.status # "none"
  BY <1>1 DEF AccountsInv, AccountsTypeOK, StaffUser, Annals, Version, OfficeInv, ReadRight, WholeRow
<1>3. /\ account' \in StaffUser /\ account'.version = account.version + 1
      /\ account'.status = account.status /\ account'.password = account.password
      /\ account'.setup = account.setup /\ account' # NoStaff
  BY <1>1, <1>2, AccountsAssumption DEF StaffUser, Version, NoStaff
<1>4. /\ annals' \in Annals
      /\ ~annals.wroteBack => annals'.outdated < account'.version
      /\ annals'.ended = annals.ended /\ annals'.revived = annals.revived
      /\ annals'.wroteBack = annals.wroteBack /\ annals'.spent = annals.spent
      /\ annals'.retired = annals.retired
  <2>1. /\ Later(annals.outdated, account.version) \in Version
        /\ ~annals.wroteBack => Later(annals.outdated, account.version) < account'.version
    <3>1. /\ annals.outdated \in 0..MaxVersion /\ account.version \in 0..MaxVersion
          /\ ~annals.wroteBack => annals.outdated < account.version
      BY <1>2 DEF Annals, Version, StaffUser, AccountsInv, VersionInv
    <3> QED BY <1>2, <1>3, <3>1 DEF Version, Later
  <2> QED BY <1>1, <1>2, <2>1 DEF Annals
<1>5. PICK c \in Office : c = [officer[o] EXCEPT !.at = "revoke"]
  <2>1. officer[o] \in Office BY DEF AccountsInv, AccountsTypeOK
  <2> QED BY <2>1 DEF Office, OfficePoint
<1>6. officer' = [officer EXCEPT ![o] = c] /\ c.row = officer[o].row /\ c.at = "revoke"
      /\ c.letter = officer[o].letter /\ c.came = officer[o].came /\ c.pass = officer[o].pass
      /\ c.op = officer[o].op
  BY <1>1, <1>5 DEF AccountsInv, AccountsTypeOK, Office, Turns
<1>7. AccountsTypeOK'
  BY <1>1, <1>3, <1>4, <1>6 DEF AccountsInv, AccountsTypeOK
<1>8. Forward
  BY <1>1, <1>2, <1>3, <1>4 DEF Forward, AccountsInv, AccountsTypeOK, Letter
<1>9. ReadRight(c) /\ CameRight(c)
  BY <1>1, <1>6 DEF AccountsInv, OfficeInv, ReadRight, CameRight
<1>10. OfficeInv'
  <2>1. ReadRight(c)' /\ CameRight(c)'
    BY <1>7, <1>8, <1>9, RequestGoesOn DEF AccountsInv
  <2> QED BY <1>6, <1>7, <1>8, <2>1, OfficeGoesOn
<1>11. WholeRow(account)' /\ RowBehind(account)' /\ VersionInv'
  <2>1. WholeRow(account)'
    BY <1>1, <1>2, <1>3, <1>4 DEF AccountsInv, WholeRow
  <2>2. RowBehind(account)'
    BY <1>2, <1>3, <1>4 DEF AccountsInv, RowBehind
  <2>3. VersionInv'
    BY <1>3, <1>4 DEF VersionInv
  <2> QED BY <2>1, <2>2, <2>3
<1>12. LettersInv' /\ PassesInv'
  BY <1>1, <1>4 DEF AccountsInv, LettersInv, PassesInv
<1> QED
  BY <1>7, <1>10, <1>11, <1>12 DEF AccountsInv

\* What every handler makes of a whole row is a whole row, ahead of nothing.
LEMMA RewrittenWhole ==
    ASSUME AccountsTypeOK, LettersInv, NEW row \in StaffUser, NEW op, NEW l \in Letter,
           NEW new \in Rewritten(op, row, l), WholeRow(row), row.status # "none",
           op = "setup" => row.version < MaxVersion, op = "reset" => l # 0
    PROVE  /\ new \in StaffUser /\ new.status # "none"
           /\ op = "setup" => /\ new.version = row.version + 1 /\ new.setup = 0
                              /\ new.status = "active" /\ new.password
           /\ op # "setup" => new.version = row.version
           /\ op = "reset" => /\ new.setup = l /\ ~new.password
                              /\ new.status \in {"invited", "suspended", row.status}
                              /\ new.status \notin {"active", "locked"}
           /\ op = "deactivate" => /\ new.status = "deactivated" /\ new.setup = 0
                                   /\ new.password = row.password
           /\ op \notin {"setup", "reset", "deactivate"} =>
                 /\ new.setup = row.setup /\ new.password = row.password
                 /\ new.status \in {"active", "locked"} => new.password
                 /\ new.status = "invited" => ~new.password
                 /\ op = "login" => new.status \in {"active", row.status}
                 /\ op = "wrong" /\ new.status # row.status =>
                       row.status = "active" /\ new.status = "locked"
                 /\ op = "suspend" => new.status = "suspended"
                 /\ op \notin {"login", "wrong", "suspend", "reactivate"} => new = row
<1>1. CASE op = "setup"
  <2>1. new = [row EXCEPT !.status = "active", !.password = TRUE, !.setup = 0, !.version = @ + 1]
    BY <1>1 DEF Rewritten, Established
  <2>2. row.version + 1 \in Version /\ 0 \in Letter
    BY <1>1, AccountsAssumption DEF StaffUser, Version, Letter
  <2> QED BY <1>1, <2>1, <2>2 DEF StaffUser, StaffStatus
<1>2. CASE op = "reset"
  BY <1>2 DEF Rewritten, Recredentialed, StaffUser, StaffStatus, WholeRow
<1>3. CASE op = "deactivate"
  <2>1. new = [row EXCEPT !.status = "deactivated", !.setup = 0]
    BY <1>3 DEF Rewritten
  <2>2. 0 \in Letter BY AccountsAssumption DEF Letter
  <2> QED BY <1>3, <2>1, <2>2 DEF StaffUser, StaffStatus
<1>4. CASE op = "login"
  BY <1>4 DEF Rewritten, Unlocked, StaffUser, StaffStatus, WholeRow
<1>5. CASE op = "wrong"
  BY <1>5 DEF Rewritten, FailureCounted, StaffUser, StaffStatus, WholeRow
<1>6. CASE op = "suspend"
  BY <1>6 DEF Rewritten, StaffUser, StaffStatus, WholeRow
<1>7. CASE op = "reactivate"
  BY <1>7 DEF Rewritten, Reinstated, StaffUser, StaffStatus, WholeRow
<1>8. CASE op \notin {"setup", "reset", "deactivate", "login", "wrong", "suspend", "reactivate"}
  BY <1>8 DEF Rewritten, WholeRow
<1> QED
  BY <1>1, <1>2, <1>3, <1>4, <1>5, <1>6, <1>7, <1>8

LEMMA SavesKeeps ==
    ASSUME AccountsInv, NEW o \in Officers, SavesAccount(o)
    PROVE  AccountsInv'
<1> DEFINE k == officer[o]
           made == IF k.op = "reset" THEN letters.made + 1 ELSE letters.made
<1>1. /\ k.at = "save" /\ made <= MaxLetters
      /\ k.op = "setup" => k.row.version < MaxVersion
      /\ letters' = [letters EXCEPT !.made = made]
      /\ account' \in Rewritten(k.op, k.row, made)
      /\ IF After(k.op) = "idle" THEN Done(o)
         ELSE officer' = [officer EXCEPT ![o].at = After(k.op),
                             ![o].letter = IF k.op = "reset" THEN made ELSE @]
      /\ annals' = [annals EXCEPT
            !.wroteBack = @ \/ k.row.version # account.version,
            !.outdated = IF k.op = "setup" THEN Later(@, k.row.version) ELSE @,
            !.spent = IF k.op = "setup" THEN @ \cup {k.letter} ELSE @,
            !.retired = @ \/ k.op = "deactivate"]
      /\ UNCHANGED <<passes, officeOps>>
  BY DEF SavesAccount
<1>2. k \in Office /\ k.row \in StaffUser /\ k.letter \in Letter /\ k.op \in OfficeOp
  BY DEF AccountsInv, AccountsTypeOK, Office
<1>3. /\ WholeRow(k.row) /\ RowBehind(k.row) /\ ReadRight(k) /\ CameRight(k)
      /\ k.row.status # "none" /\ account # NoStaff
  BY <1>1 DEF AccountsInv, OfficeInv, ReadRight
<1>4. /\ letters.made \in Nat /\ made \in Letter /\ letters.made <= made
      /\ letters'.made = made /\ letters'.handed = letters.handed
      /\ k.op = "reset" => made = letters.made + 1
  BY <1>1, AccountsAssumption DEF AccountsInv, AccountsTypeOK, Letter
<1>5. /\ account' \in StaffUser /\ account'.status # "none"
      /\ k.op = "setup" => /\ account'.version = k.row.version + 1 /\ account'.setup = 0
                           /\ account'.status = "active" /\ account'.password
      /\ k.op # "setup" => account'.version = k.row.version
      /\ k.op = "reset" => /\ account'.setup = made /\ ~account'.password
                           /\ account'.status \notin {"active", "locked"}
      /\ k.op = "deactivate" => /\ account'.status = "deactivated" /\ account'.setup = 0
      /\ k.op \notin {"setup", "reset", "deactivate"} =>
            /\ account'.setup = k.row.setup /\ account'.password = k.row.password
            /\ account'.status \in {"active", "locked"} => account'.password
            /\ account'.status = "invited" => ~account'.password
  <2>1. \A row \in StaffUser, l \in Letter : row = k.row /\ l = made =>
          \A op \in OfficeOp : op = k.op => \A new \in Rewritten(op, row, l) :
             /\ new \in StaffUser /\ new.status # "none"
             /\ op = "setup" => /\ new.version = row.version + 1 /\ new.setup = 0
                                /\ new.status = "active" /\ new.password
             /\ op # "setup" => new.version = row.version
             /\ op = "reset" => /\ new.setup = l /\ ~new.password
                                /\ new.status \notin {"active", "locked"}
             /\ op = "deactivate" => /\ new.status = "deactivated" /\ new.setup = 0
             /\ op \notin {"setup", "reset", "deactivate"} =>
                   /\ new.setup = row.setup /\ new.password = row.password
                   /\ new.status \in {"active", "locked"} => new.password
                   /\ new.status = "invited" => ~new.password
    <3> HIDE DEF k, made
    <3>1. made # 0 \/ k.op # "reset"
      BY <1>4
    <3>2. AccountsTypeOK /\ LettersInv
      BY DEF AccountsInv
    <3> QED
      BY <1>1, <1>3, <3>1, <3>2, RewrittenWhole
  <2> HIDE DEF k, made
  <2> QED
    BY <1>1, <1>2, <1>4, <2>1
<1>6. /\ annals \in Annals /\ account \in StaffUser /\ k.row.version \in Version
      /\ account.version \in Version /\ annals.outdated \in Version
  BY <1>2 DEF AccountsInv, AccountsTypeOK, StaffUser, Annals
<1> HIDE DEF k, made
<1>7. /\ annals'.wroteBack = (annals.wroteBack \/ k.row.version # account.version)
      /\ annals'.outdated = IF k.op = "setup" THEN Later(annals.outdated, k.row.version)
                            ELSE annals.outdated
      /\ annals'.spent = IF k.op = "setup" THEN annals.spent \cup {k.letter} ELSE annals.spent
      /\ annals'.retired = (annals.retired \/ k.op = "deactivate")
      /\ annals'.ended = annals.ended /\ annals'.revived = annals.revived
  BY <1>1, <1>6 DEF Annals
<1>8. annals' \in Annals
  <2>1. Later(annals.outdated, k.row.version) \in Version
    BY <1>6 DEF Later
  <2> QED BY <1>1, <1>2, <1>6, <2>1 DEF Annals
<1>9. account' # NoStaff
  BY <1>5 DEF NoStaff
<1>10. Forward
  <2>1. ~annals'.wroteBack =>
           \/ account.version < account'.version
           \/ account.version = account'.version /\ annals.spent = annals'.spent
    <3> SUFFICES ASSUME ~annals'.wroteBack
                 PROVE  \/ account.version < account'.version
                        \/ account.version = account'.version /\ annals.spent = annals'.spent
      OBVIOUS
    <3>1. k.row.version = account.version /\ account.version \in Nat
      <4>1. k.row.version = account.version BY <1>7, Zenon
      <4> QED BY <1>6, <4>1 DEF Version
    <3>2. CASE k.op = "setup"
      <4>1. account'.version = account.version + 1 BY <1>5, <3>1, <3>2
      <4> QED BY <3>1, <4>1
    <3>3. CASE k.op # "setup"
      BY <1>5, <1>7, <3>1, <3>3
    <3> QED BY <3>2, <3>3
  <2> QED BY <1>1, <1>4, <1>7, <1>9, <2>1 DEF Forward
<1>11. WholeRow(account)'
  <2>1. account'.version # 0
    BY <1>3, <1>5, <1>6 DEF WholeRow, Version
  <2>2. account'.setup <= letters'.made
    BY <1>2, <1>3, <1>4, <1>5 DEF WholeRow, StaffUser, Letter
  <2>3. account'.password \/ account'.setup # 0 \/ annals'.retired
    <3>1. k.row.password \/ k.row.setup # 0 \/ annals'.retired
      BY <1>3, <1>7 DEF WholeRow
    <3>2. CASE k.op = "reset"
      <4>1. made # 0 BY <1>4, <3>2
      <4> QED BY <1>5, <3>2, <4>1
    <3>3. CASE k.op # "reset"
      BY <1>5, <1>7, <3>1, <3>3
    <3> QED BY <3>2, <3>3
  <2>4. account'.password => account'.setup = 0
    BY <1>3, <1>5 DEF WholeRow
  <2>5. /\ account'.status \in {"active", "locked"} => account'.password
        /\ account'.status = "invited" => ~account'.password
    BY <1>5
  <2> QED BY <1>5, <2>1, <2>2, <2>3, <2>4, <2>5 DEF WholeRow
<1>12. LettersInv'
  <2>1. k.op = "setup" => k.letter # 0 /\ k.letter <= letters.made
    BY <1>1, <1>3 DEF ReadRight
  <2>2. \A l \in annals.spent \cup letters.handed : l \in Nat
    BY <1>6 DEF AccountsInv, AccountsTypeOK, Annals, Letter
  <2>3. k.letter \in Nat /\ made \in Nat
    BY <1>2, <1>4 DEF Letter
  <2> QED BY <1>4, <1>7, <2>1, <2>2, <2>3 DEF AccountsInv, LettersInv
<1>13. RowBehind(account)' /\ VersionInv'
  <2> SUFFICES ASSUME ~annals'.wroteBack
               PROVE  /\ account'.setup \notin annals'.spent
                      /\ annals'.outdated < account'.version
    BY <1>5, <1>9 DEF RowBehind, VersionInv, StaffUser, Version
  <2>1. ~annals.wroteBack /\ k.row.version = account.version
    BY <1>7
  <2>2. annals.outdated < account.version
    BY <1>3, <2>1 DEF AccountsInv, VersionInv
  <2>3. annals'.outdated < account'.version
    BY <1>5, <1>6, <1>7, <2>1, <2>2 DEF Later, Version
  <2>4. k.row.setup \notin annals.spent
    BY <1>3, <2>1 DEF RowBehind
  <2>5. 0 \notin annals'.spent
    BY <1>12 DEF LettersInv
  <2>6. CASE k.op \in {"setup", "deactivate"}
    BY <1>5, <2>3, <2>5, <2>6
  <2>7. CASE k.op = "reset"
    <3>1. made \notin annals.spent
      BY <1>4, <2>7 DEF AccountsInv, LettersInv
    <3> QED BY <1>5, <1>7, <2>3, <2>7, <3>1
  <2>8. CASE k.op \notin {"setup", "deactivate", "reset"}
    BY <1>5, <1>7, <2>3, <2>4, <2>8
  <2> QED BY <2>3, <2>6, <2>7, <2>8
<1>14. PassesInv'
  BY <1>1, <1>7 DEF AccountsInv, PassesInv
<1>15. letters' \in [made : Letter, handed : SUBSET Letter]
  BY <1>1, <1>4 DEF AccountsInv, AccountsTypeOK
<1>16. AccountsTypeOK' /\ OfficeInv'
  <2>1. CASE After(k.op) = "idle"
    <3>1. Done(o) BY <1>1, <2>1
    <3>2. NoOffice \in Office BY NoOfficeRight DEF AccountsInv
    <3>3. AccountsTypeOK'
      BY <1>1, <1>5, <1>8, <1>15, <3>1, <3>2 DEF AccountsInv, AccountsTypeOK, Done
    <3> QED BY <1>10, <3>1, <3>3, OfficeLosesOne
  <2>2. CASE After(k.op) # "idle"
    <3>1. PICK c \in Office :
            c = [k EXCEPT !.at = After(k.op), !.letter = IF k.op = "reset" THEN made ELSE @]
      <4>1. After(k.op) \in OfficePoint BY DEF After, OfficePoint
      <4> QED BY <1>2, <1>4, <4>1 DEF Office
    <3>2. /\ officer' = [officer EXCEPT ![o] = c] /\ c.row = officer[o].row
      BY <1>1, <1>2, <2>2, <3>1 DEF AccountsInv, AccountsTypeOK, Office, k
    <3>3. /\ c.row = k.row /\ c.at = After(k.op) /\ c.op = k.op /\ c.came = k.came
          /\ c.pass = k.pass /\ c.letter = IF k.op = "reset" THEN made ELSE k.letter
      BY <1>2, <3>1 DEF Office
    <3>4. AccountsTypeOK'
      BY <1>1, <1>5, <1>8, <1>15, <3>2 DEF AccountsInv, AccountsTypeOK
    <3>5. c.at \in {"bump", "revoke", "open"} /\ (c.op = "reset" => made # 0)
      BY <1>4, <2>2, <3>3 DEF After
    <3>6. k.letter <= made /\ made <= made
      BY <1>2, <1>3, <1>4 DEF ReadRight, Letter
    <3>7. ReadRight(c)'
      BY <1>3, <1>4, <1>9, <3>3, <3>5, <3>6 DEF ReadRight
    <3>8. CameRight(c)'
      BY <1>3, <1>7, <3>3, <3>5 DEF CameRight
    <3> QED BY <1>10, <3>2, <3>4, <3>7, <3>8, OfficeGoesOn
  <2> QED BY <2>1, <2>2
<1> QED
  BY <1>11, <1>12, <1>13, <1>14, <1>16 DEF AccountsInv

LEMMA AccountsStepKeeps ==
    ASSUME AccountsInv, [AccountsNext]_accountVars
    PROVE  AccountsInv'
<1>1. CASE UNCHANGED accountVars
  BY <1>1 DEF accountVars, AccountsInv, AccountsTypeOK, WholeRow, RowBehind, OfficeInv, ReadRight,
              CameRight, LettersInv, PassesInv, VersionInv
<1>2. ASSUME NEW o \in Officers,
             \/ CreateStaff(o) \/ CompleteSetup(o) \/ UpdateProfile(o) \/ Suspend(o)
             \/ Deactivate(o) \/ Reactivate(o) \/ ResetCredentials(o) \/ SetRoles(o)
             \/ Kick(o) \/ Login(o) \/ RefreshRead(o) \/ Call(o)
             \/ InsertsStaff(o) \/ HandsOver(o) \/ SavesAccount(o) \/ BumpsVersion(o)
             \/ RevokesAll(o) \/ OpensSession(o) \/ RefreshChecks(o) \/ Rotates(o)
             \/ Identified(o) \/ Logout(o) \/ LogoutAll(o) \/ Ends(o)
      PROVE  AccountsInv'
  BY Zenon, <1>2, TakesAccounts, InsertsKeeps, HandsOverKeeps, SavesKeeps, BumpsKeeps,
     RevokesKeeps, OpensKeeps, OneSessionKeeps, MovesKeep
<1> QED
  BY Zenon, <1>1, <1>2 DEF AccountsNext

\* The invariant of an account and its sessions: every row is whole, no row in
\* hand is ahead of the account, and what a request relies on still holds.
THEOREM AccountsInvariant == AccountsSpec => []AccountsInv
<1>1. AccountsInit => AccountsInv
  BY AccountsStart
<1>2. AccountsInv /\ [AccountsNext]_accountVars => AccountsInv'
  BY AccountsStepKeeps
<1> QED
  BY <1>1, <1>2, PTL DEF AccountsSpec

\* The state of an account and its sessions has its type.
THEOREM AccountsTypes == AccountsSpec => []AccountsTypeOK
<1>1. AccountsInv => AccountsTypeOK
  BY DEF AccountsInv
<1> QED
  BY <1>1, AccountsInvariant, PTL

LEMMA InvEndsSessions == ASSUME AccountsInv PROVE SessionsEnd /\ AccountSound
<1>1. SessionsEnd
  BY DEF AccountsInv, OfficeInv, CameRight, SessionsEnd
<1>2. AccountSound
  <2>1. account.version \in Nat /\ account.version <= account.version
    BY DEF AccountsInv, AccountsTypeOK, StaffUser, Version
  <2>2. Hired => account.status # "none"
    BY DEF AccountsInv, WholeRow, Hired
  <2> QED BY <2>1, <2>2 DEF AccountsInv, WholeRow, RowBehind, AccountSound
<1> QED
  BY <1>1, <1>2

\* A session of before an invalidation lets nobody in, unless the version and the
\* session's row were both written back (staff_auth_service.ts:411-510).
THEOREM SessionsDoEnd == AccountsSpec => []SessionsEnd
<1>1. AccountsInv => SessionsEnd
  BY InvEndsSessions
<1> QED
  BY <1>1, AccountsInvariant, PTL

LEMMA AccountSteps == ASSUME AccountsInv, [AccountsNext]_accountVars, AccountsInv' PROVE AccountStep
<1>1. AccountSound'
  <2>1. account'.version <= account'.version
    BY DEF AccountsInv, AccountsTypeOK, StaffUser, Version
  <2>2. Hired' => account'.status # "none"
    BY DEF AccountsInv, WholeRow, Hired
  <2> QED BY <2>1, <2>2 DEF AccountsInv, WholeRow, RowBehind, AccountSound
<1>2. ASSUME account.status \in {"suspended", "deactivated"}, account'.status # account.status
      PROVE  \E o \in Officers : SavesAccount(o)
  <2>1. account # NoStaff
    BY <1>2 DEF NoStaff
  <2>2. PICK o \in Officers :
          \/ CreateStaff(o) \/ CompleteSetup(o) \/ UpdateProfile(o) \/ Suspend(o)
          \/ Deactivate(o) \/ Reactivate(o) \/ ResetCredentials(o) \/ SetRoles(o)
          \/ Kick(o) \/ Login(o) \/ RefreshRead(o) \/ Call(o)
          \/ InsertsStaff(o) \/ HandsOver(o) \/ SavesAccount(o) \/ BumpsVersion(o)
          \/ RevokesAll(o) \/ OpensSession(o) \/ RefreshChecks(o) \/ Rotates(o)
          \/ Identified(o) \/ Logout(o) \/ LogoutAll(o) \/ Ends(o)
    BY <1>2 DEF AccountsNext, accountVars
  <2>3. ASSUME UNCHANGED account PROVE FALSE
    BY <1>2, <2>3
  <2>4. ~BumpsVersion(o)
    <3> SUFFICES ASSUME BumpsVersion(o) PROVE FALSE OBVIOUS
    <3>1. account' = [account EXCEPT !.version = @ + 1] BY DEF BumpsVersion
    <3>2. account \in StaffUser BY DEF AccountsInv, AccountsTypeOK
    <3> QED BY <1>2, <3>1, <3>2 DEF StaffUser
  <2>5. /\ CreateStaff(o) \/ CompleteSetup(o) \/ UpdateProfile(o) \/ Suspend(o)
           \/ Deactivate(o) \/ Reactivate(o) \/ ResetCredentials(o) \/ SetRoles(o)
           \/ Kick(o) \/ Login(o) \/ RefreshRead(o) => UNCHANGED account
        /\ Call(o) => UNCHANGED account
    BY DEF CreateStaff, CompleteSetup, UpdateProfile, Suspend, Deactivate, Reactivate,
           ResetCredentials, SetRoles, Kick, Login, RefreshRead, Takes, Call
  <2>6. /\ InsertsStaff(o) => UNCHANGED account
        /\ HandsOver(o) \/ RevokesAll(o) \/ OpensSession(o) \/ RefreshChecks(o) \/ Rotates(o)
           \/ Identified(o) \/ Logout(o) \/ LogoutAll(o) \/ Ends(o) => UNCHANGED account
    BY <2>1 DEF InsertsStaff, Hired, HandsOver, RevokesAll, OpensSession, RefreshChecks, Rotates,
           Identified, Logout, LogoutAll, Ends
  <2> QED
    BY Zenon, <2>2, <2>3, <2>4, <2>5, <2>6
<1>3. ASSUME NEW o \in Officers, SavesAccount(o)
      PROVE  /\ officer'[o] # officer[o]
             /\ account'.status # "deactivated" =>
                   officer[o].op = "suspend" \/ officer[o].row.status # "deactivated"
             /\ account'.status \in {"invited", "active", "locked"} =>
                   officer[o].op = "reactivate" \/ officer[o].row.status # "suspended"
  <2> DEFINE k == officer[o]
             made == IF k.op = "reset" THEN letters.made + 1 ELSE letters.made
  <2>1. k.at = "save" /\ made <= MaxLetters /\ account' \in Rewritten(k.op, k.row, made)
        /\ (k.op = "setup" => k.row.version < MaxVersion)
    BY <1>3 DEF SavesAccount
  <2>2. k \in Office /\ k.row \in StaffUser /\ k.op \in OfficeOp
    BY DEF AccountsInv, AccountsTypeOK, Office
  <2>3. WholeRow(k.row) /\ ReadRight(k) /\ k.row.status # "none"
    BY <2>1 DEF AccountsInv, OfficeInv, ReadRight
  <2>4. made \in Letter /\ (k.op = "reset" => made # 0)
    BY <2>1, AccountsAssumption DEF AccountsInv, AccountsTypeOK, Letter
  <2>5. officer'[o] # officer[o]
    <3>1. CASE After(k.op) = "idle"
      <4>1. officer'[o] = NoOffice
        BY <1>3, <3>1 DEF SavesAccount, Done, AccountsInv, AccountsTypeOK
      <4> QED BY <2>1, <4>1 DEF NoOffice
    <3>2. CASE After(k.op) # "idle"
      <4>1. officer'[o].at = After(k.op)
        BY <1>3, <2>2, <3>2 DEF SavesAccount, AccountsInv, AccountsTypeOK, Office
      <4> QED BY <2>1, <4>1 DEF After
    <3> QED BY <3>1, <3>2
  <2>6. /\ k.op \in {"setup", "login"} => k.row.status \notin {"suspended", "deactivated"}
        /\ k.op \in {"reactivate", "reset"} => k.row.status # "deactivated"
    BY <2>1, <2>3 DEF ReadRight
  <2> HIDE DEF k, made
  <2>7. /\ k.op = "reset" => account'.status \in {"invited", "suspended", k.row.status}
        /\ k.op = "reset" => (k.row.status = "suspended" => account'.status = "suspended")
        /\ k.op = "deactivate" => account'.status = "deactivated"
        /\ k.op = "suspend" => account'.status = "suspended"
        /\ k.op = "wrong" /\ account'.status # k.row.status => k.row.status = "active"
        /\ k.op \notin {"setup", "reset", "deactivate", "login", "wrong", "suspend", "reactivate"}
              => account' = k.row
    BY <2>1, <2>2 DEF Rewritten, Recredentialed, FailureCounted, StaffUser
  <2>8. /\ account'.status # "deactivated" =>
                   k.op = "suspend" \/ k.row.status # "deactivated"
        /\ account'.status \in {"invited", "active", "locked"} =>
                   k.op = "reactivate" \/ k.row.status # "suspended"
    BY <2>6, <2>7
  <2> QED
    BY <2>5, <2>8 DEF k
<1>4. /\ account.status = "deactivated" /\ account'.status # "deactivated" =>
            \E o \in Officers :
               /\ officer[o] # officer'[o]
               /\ officer[o].op = "suspend" \/ officer[o].row.status # "deactivated"
      /\ account.status = "suspended" /\ account'.status \in {"invited", "active", "locked"} =>
            \E o \in Officers :
               /\ officer[o] # officer'[o]
               /\ officer[o].op = "reactivate" \/ officer[o].row.status # "suspended"
  BY <1>2, <1>3
<1> QED
  BY <1>1, <1>4 DEF AccountStep

\* An account is whole after every step, and neither a suspension nor a
\* retirement ends but by the request that ends it or by an older row
\* (staff_service.ts:170-545).
THEOREM AccountsStepByStep == AccountsSpec => [][AccountStep]_accountVars
<1>1. AccountsInv /\ [AccountsNext]_accountVars /\ AccountsInv' => [AccountStep]_accountVars
  BY AccountSteps
<1> QED
  BY <1>1, AccountsInvariant, PTL DEF AccountsSpec

-----------------------------------------------------------------------------
(* The pages together                                                       *)

PagesInv == SessionInv /\ BoardInv /\ OpsBoardInv /\ ConsoleInv /\ AccountsInv

\* A step of the staff services is a step of each page or leaves it alone.
LEMMA PageSteps ==
    [StaffNext]_staffVars =>
        /\ [SessionNext]_sessionVars /\ [BoardNext]_boardVars
        /\ [OpsBoardNext]_opsBoardVars /\ [ConsoleNext]_consoleVars
        /\ [AccountsNext]_accountVars
BY DEF StaffNext, staffVars

\* What staff see on their pages is what their hands act on, a phone rings for
\* something, and a page keeps its session (app.js:906-918 and 1903-1992,
\* operations.js:223-250, keke_admin/app.js:1358-1592): in every run, for every
\* number of requests, rides, subjects, requests of a page and polls.
THEOREM PagesTrue == StaffSpec => []PagesStand
<1>1. StaffInit => PagesInv
  BY SessionInvInit, BoardInvInit, OpsBoardInvInit, ConsoleInvInit, AccountsStart
     DEF StaffInit, PagesInv
<1>2. PagesInv /\ [StaffNext]_staffVars => PagesInv'
  BY PageSteps, SessionInvStep, BoardInvStep, OpsBoardInvStep, ConsoleInvStep,
     AccountsStepKeeps DEF PagesInv
<1>3. PagesInv => PagesStand
  BY InvEndsSessions DEF PagesInv, SessionInv, BoardInv, OpsBoardInv, ConsoleInv, PagesStand
<1> QED BY <1>1, <1>2, <1>3, PTL DEF StaffSpec

-----------------------------------------------------------------------------
(* A park's row                                                             *)

\* A suspension has its reason, a park in service has none.
ReasonOK(row) ==
    (row.status = "SUSPENDED" => row.reason) /\ (row.status = "ACTIVE" => ~row.reason)

\* An activation that is about to be saved read a supervised park.
ParkRowsInv ==
    /\ park \in ParkRow /\ stage \in ZoneState /\ parkOps \in 0..MaxParkOps
    /\ manager \in [Managers -> Managing \cup {NoManager}]
    /\ ReasonOK(park)
    /\ \A m \in Managers : manager[m] # NoManager =>
          /\ ReasonOK(manager[m].row)
          /\ manager[m].op = "activate" /\ manager[m].at = "save" =>
                manager[m].row.supervised

LEMMA ParkRowsInit == ParkAdminInit => ParkRowsInv
<1> SUFFICES ASSUME ParkAdminInit PROVE ParkRowsInv OBVIOUS
<1>1. park \in ParkRow /\ ReasonOK(park)
  BY DEF ParkAdminInit, NoSuchPark, ParkRow, ParkStatus, ReasonOK
<1>2. manager \in [Managers -> Managing \cup {NoManager}] BY DEF ParkAdminInit
<1>3. parkOps \in 0..MaxParkOps
  BY ParkAdminAssumption DEF ParkAdminInit, ParkAdminAssumption
<1> QED BY <1>1, <1>2, <1>3 DEF ParkAdminInit, ParkRowsInv, ZoneState

\* What a request makes of a row.
LEMMA ConfiguredFacts ==
    ASSUME NEW row \in ParkRow, NEW op \in ParkEdit, ReasonOK(row)
    PROVE  LET new == Configured(op, row) IN
           /\ new \in ParkRow /\ ReasonOK(new)
           /\ new.status = "ACTIVE" =>
                 IF op = "activate" THEN new.supervised = row.supervised
                 ELSE row.status = "ACTIVE"
           /\ new.status # "SUSPENDED" =>
                 op \in {"activate", "deactivate"} \/ row.status # "SUSPENDED"
BY DEF Configured, ParkEdit, ParkRow, ParkStatus, ReasonOK

\* A request that ends.
LEMMA ManagerEnds ==
    ASSUME ParkRowsInv, NEW m \in Managers, ~Unmanned(m),
           manager' = [manager EXCEPT ![m] = NoManager],
           park' \in ParkRow, ReasonOK(park'), stage' \in ZoneState, parkOps' = parkOps
    PROVE  ParkRowsInv' /\ manager[m] # manager'[m]
BY DEF ParkRowsInv, Unmanned

LEMMA ParkRowsStep ==
    ASSUME ParkRowsInv, [ParkAdminNext]_parkAdminVars
    PROVE  ParkRowsInv' /\ ParkStep
<1> DEFINE Goal == ParkRowsInv' /\ ParkStep
<1>0. /\ park \in ParkRow /\ stage \in ZoneState /\ parkOps \in 0..MaxParkOps
      /\ manager \in [Managers -> Managing \cup {NoManager}] /\ ReasonOK(park)
      /\ MaxParkOps \in Nat
  BY ParkAdminAssumption DEF ParkRowsInv, ParkAdminAssumption
<1>1. park' = park => ParkStep BY <1>0 DEF ParkStep, ReasonOK
<1>2. ASSUME NEW m \in Managers,
             NEW op \in ParkEdit \cup ZoneEdit \cup {"create", "createZone"},
             NEW first \in {"blockers", "save"}, Manages(m, op, first),
             op = "activate" => first = "blockers"
      PROVE  Goal
  <2> DEFINE r == [op |-> op, at |-> first, row |-> park, zone |-> stage]
  <2>1. r \in Managing /\ r # NoManager /\ r.row = park /\ r.op = op /\ r.at = first
    BY <1>0 DEF Managing, NoManager, ParkEdit, ZoneEdit
  <2>2. /\ manager' = [manager EXCEPT ![m] = r] /\ parkOps' \in 0..MaxParkOps
        /\ UNCHANGED <<park, stage>>
    BY <1>0, <1>2 DEF Manages
  <2> HIDE DEF r
  <2>3. ParkRowsInv' BY <1>0, <1>2, <2>1, <2>2 DEF ParkRowsInv
  <2> QED BY <1>1, <2>2, <2>3
<1>3. ASSUME NEW m \in Managers,
             \/ AsksToCreate(m) \/ AsksToUpdate(m) \/ AsksToName(m)
             \/ AsksToActivate(m) \/ AsksToDeactivate(m) \/ AsksToSuspend(m)
             \/ AsksForZone(m) \/ AsksToEditZone(m)
      PROVE  Goal
  BY <1>2, <1>3 DEF AsksToCreate, AsksToUpdate, AsksToName, AsksToActivate,
     AsksToDeactivate, AsksToSuspend, AsksForZone, AsksToEditZone, ParkEdit, ZoneEdit
<1>4. ASSUME NEW m \in Managers, ChecksBlockers(m) PROVE Goal
  <2>1. manager[m] \in Managing /\ UNCHANGED <<park, stage, parkOps>>
    BY <1>0, <1>4 DEF ChecksBlockers, Unmanned
  <2>2. CASE activationBlockers(manager[m].row)
    <3> DEFINE r == [manager[m] EXCEPT !.at = "save"]
    <3>1. /\ r \in Managing /\ r # NoManager /\ r.row = manager[m].row
          /\ r.row.supervised
      BY <2>1, <2>2 DEF Managing, activationBlockers, NoManager, ParkEdit, ZoneEdit
    <3>2. manager' = [manager EXCEPT ![m] = r] BY <1>4, <2>2 DEF ChecksBlockers
    <3>3. ReasonOK(r.row) BY <1>4, <3>1 DEF ParkRowsInv, ChecksBlockers, Unmanned
    <3> HIDE DEF r
    <3>4. ParkRowsInv' BY <1>0, <2>1, <3>1, <3>2, <3>3 DEF ParkRowsInv
    <3> QED BY <1>1, <2>1, <3>4
  <2>3. CASE ~activationBlockers(manager[m].row)
    BY <1>0, <1>1, <1>4, <2>1, <2>3, ManagerEnds DEF ChecksBlockers
  <2> QED BY <2>2, <2>3
<1>5. ASSUME NEW m \in Managers, SavesPark(m) PROVE Goal
  <2>1. /\ manager[m] \in Managing /\ manager[m] # NoManager
        /\ manager[m].at = "save" /\ manager[m].op \in ParkEdit
        /\ park' = Configured(manager[m].op, manager[m].row)
        /\ manager' = [manager EXCEPT ![m] = NoManager]
        /\ UNCHANGED <<stage, parkOps>>
    BY <1>0, <1>5 DEF SavesPark, Unmanned
  <2>2. manager[m].row \in ParkRow BY <2>1 DEF Managing
  <2>3. ReasonOK(manager[m].row) /\
        (manager[m].op = "activate" => manager[m].row.supervised)
    BY <2>1 DEF ParkRowsInv
  <2>4. ParkRowsInv' /\ manager[m] # manager'[m]
    BY <1>0, <2>1, <2>2, <2>3, ConfiguredFacts, ManagerEnds DEF Unmanned
  <2>5. ParkStep
    BY <2>1, <2>2, <2>3, <2>4, ConfiguredFacts DEF ParkStep, ReasonOK
  <2> QED BY <2>4, <2>5
<1>6. ASSUME NEW m \in Managers, InsertsPark(m) PROVE Goal
  <2>1. /\ park' = park \/ (park = NoSuchPark /\ park' = [park EXCEPT !.status = "DRAFT"])
        /\ ~Unmanned(m) /\ manager' = [manager EXCEPT ![m] = NoManager]
        /\ UNCHANGED <<stage, parkOps>>
    BY <1>6 DEF InsertsPark
  <2>2. park' = park \/
        (park' \in ParkRow /\ park'.status = "DRAFT" /\ park.status = "none")
    BY <1>0, <2>1 DEF NoSuchPark, ParkRow, ParkStatus
  <2>3. park' \in ParkRow /\ ReasonOK(park') BY <1>0, <2>2 DEF ReasonOK
  <2>4. ParkRowsInv' BY <1>0, <2>1, <2>3, ManagerEnds
  <2>5. ParkStep BY <1>1, <2>2 DEF ParkStep
  <2> QED BY <2>4, <2>5
<1>7. ASSUME NEW m \in Managers, SavesZone(m) PROVE Goal
  <2>1. manager[m] \in Managing => manager[m].zone \in ZoneState BY DEF Managing
  <2>2. stage' \in ZoneState
    BY <1>0, <1>7, <2>1 DEF SavesZone, Unmanned, ZoneState
  <2> QED BY <1>0, <1>1, <1>7, <2>2, ManagerEnds DEF SavesZone
<1>8. CASE UNCHANGED parkAdminVars
  BY <1>1, <1>8 DEF parkAdminVars, ParkRowsInv, ReasonOK
<1> QED BY <1>3, <1>4, <1>5, <1>6, <1>7, <1>8 DEF ParkAdminNext

-----------------------------------------------------------------------------
(* Badges                                                                   *)

\* Every set of natural numbers has a least member.
LEMMA LeastNumber ==
    ASSUME NEW T \in SUBSET Nat, T # {}
    PROVE  \E x \in T : \A y \in T : x <= y
<1> DEFINE R == OpToRel(<, Nat)
<1>1. IsWellFoundedOn(R, Nat) BY NatLessThanWellFounded
<1>2. \A x, y \in Nat : x < y => <<x, y>> \in R BY DEF OpToRel
<1> HIDE DEF R
<1>3. PICK x \in T : \A y \in T : ~ (<<y, x>> \in R) BY <1>1, WFMin
<1>4. \A y \in T : ~ (y < x) BY <1>2, <1>3
<1>5. \A y \in T : x <= y BY <1>4
<1> QED BY <1>5

\* What a request about a badge holds: a row it read, which an activation found
\* waiting and a replacement has retired once it looks for a new serial.
DeskOK(call) ==
    /\ call.op # "issue" => call.of \in Serials /\ call.row \in Card
    /\ call.op = "issue" => call.at \in {"serial", "insert"}
    /\ call.op = "activate" => call.row.status = "pending_activation"
    /\ call.op = "replace" /\ call.at # "save" => call.row.status = "replaced"
    /\ call.at \notin {"save", "insert", "serial"} => call.op = "replace"

\* A driver has one live badge.
OneLiveBadge ==
    \A d \in Bearers : \A n, i \in LiveBadges(d) : n = i

BadgesInv ==
    /\ badge \in [Serials -> Card \cup {NoCard}]
    /\ counter \in [Counters -> AtBadgeDesk \cup {NoRequest}]
    /\ \A k \in Counters : counter[k] # NoRequest => DeskOK(counter[k])
    /\ OneLiveBadge

LEMMA BadgesInvInit == BadgesInit => BadgesInv
BY DEF BadgesInit, BadgesInv, OneLiveBadge, LiveBadges, NoCard, LIVE_BADGE_STATUSES

\* A row saved where the index allows it leaves every driver one live badge.
LEMMA FitsKeeps ==
    ASSUME BadgesInv, NEW n \in Serials, NEW row \in Card, Fits(n, row),
           badge' = [badge EXCEPT ![n] = row]
    PROVE  badge' \in [Serials -> Card \cup {NoCard}] /\ OneLiveBadge'
<1>1. badge' \in [Serials -> Card \cup {NoCard}] BY DEF BadgesInv
<1>2. badge'[n] = row /\ \A i \in Serials \ {n} : badge'[i] = badge[i]
  BY DEF BadgesInv
<1>3. ASSUME NEW d \in Bearers, NEW i \in LiveBadges(d)', NEW j \in LiveBadges(d)'
      PROVE  i = j
  <2>1. i \in Serials /\ j \in Serials BY DEF LiveBadges
  <2>2. CASE i # n /\ j # n
    BY <1>2, <2>1, <2>2 DEF LiveBadges, BadgesInv, OneLiveBadge
  <2>3. CASE i = n \/ j = n
    <3>1. row.driver = d /\ row.status \in LIVE_BADGE_STATUSES
      BY <1>2, <2>3 DEF LiveBadges
    <3>2. LiveBadges(d) \subseteq {n} BY <3>1 DEF Fits
    <3> QED BY <1>2, <2>1, <2>3, <3>2 DEF LiveBadges
  <2> QED BY <2>2, <2>3
<1> QED BY <1>1, <1>3 DEF OneLiveBadge

LEMMA AtMostOne ==
    ASSUME NEW S, \A n, i \in S : n = i
    PROVE  Cardinality(S) <= 1
<1>1. CASE S = {} BY <1>1, FS_EmptySet
<1>2. ASSUME NEW n \in S PROVE Cardinality(S) <= 1
  <2>1. S = {n} BY <1>2
  <2>2. Cardinality({n}) = 1 BY FS_Singleton
  <2> QED BY <2>1, <2>2
<1> QED BY <1>1, <1>2

\* A request that moves on, or ends.
LEMMA CounterMoves ==
    ASSUME BadgesInv, NEW k \in Counters, NEW call \in AtBadgeDesk \cup {NoRequest},
           call # NoRequest => DeskOK(call),
           counter' = [counter EXCEPT ![k] = call],
           badge' \in [Serials -> Card \cup {NoCard}], OneLiveBadge'
    PROVE  BadgesInv' /\ counter'[k] = call
BY DEF BadgesInv

\* The highest serial is one of them.
LEMMA NextSerial ==
    ASSUME BadgesInv
    PROVE  LET highest == CHOOSE n \in 0..MaxSerial :
                   /\ n = 0 \/ badge[n] # NoCard
                   /\ \A i \in Serials : badge[i] # NoCard => i <= n
           IN  highest \in 0..MaxSerial
<1>0. MaxSerial \in Nat BY BadgesAssumption DEF BadgesAssumption
<1> DEFINE T == {n \in Nat : \A i \in Serials : badge[i] # NoCard => i <= n}
<1>1. MaxSerial \in T BY <1>0 DEF Serials
<1>2. PICK n \in T : \A i \in T : n <= i BY <1>1, LeastNumber
<1>3. n \in 0..MaxSerial BY <1>0, <1>1, <1>2
<1>4. n = 0 \/ badge[n] # NoCard
  <2>1. SUFFICES ASSUME n # 0, badge[n] = NoCard PROVE FALSE OBVIOUS
  <2>2. n - 1 \in T
    <3>1. n - 1 \in Nat BY <1>2, <2>1
    <3>2. ASSUME NEW i \in Serials, badge[i] # NoCard PROVE i <= n - 1
      <4>1. i <= n /\ i # n BY <1>2, <2>1, <3>2
      <4> QED BY <4>1, <1>0, <1>3 DEF Serials
    <3> QED BY <3>1, <3>2
  <2>3. n <= n - 1 BY <1>2, <2>2
  <2> QED BY <1>3, <1>0, <2>3
<1>5. \A i \in Serials : badge[i] # NoCard => i <= n BY <1>2
<1> QED BY <1>3, <1>4, <1>5

\* What a save makes of the row that was read.
LEMMA StampedFacts ==
    ASSUME NEW call \in AtBadgeDesk, DeskOK(call), call.at = "save"
    PROVE  /\ Stamped(call.op, call.row) \in Card /\ call.of \in Serials
           /\ Stamped(call.op, call.row).status \in LIVE_BADGE_STATUSES =>
                 call.row.status \in LIVE_BADGE_STATUSES
           /\ call.op = "replace" => Stamped(call.op, call.row).status = "replaced"
<1>1. call.of \in Serials /\ call.row \in Card BY DEF DeskOK
<1> QED BY <1>1 DEF Stamped, Card, BadgeStatus, LIVE_BADGE_STATUSES, AtBadgeDesk, DeskOK

\* The second promise of BadgesStep.
Revives(n) ==
    /\ badge[n] # NoCard /\ badge[n].status \notin LIVE_BADGE_STATUSES
    /\ badge'[n].status \in LIVE_BADGE_STATUSES
HadIt(n) ==
    \E k \in Counters :
        /\ counter[k] # counter'[k]
        /\ \/ counter[k].of = n /\ counter[k].row.status \in LIVE_BADGE_STATUSES
           \/ counter[k].at = "insert" /\ counter[k].serial = n
Had == \A n \in Serials : Revives(n) => HadIt(n)

LEMMA BadgesInvStep ==
    ASSUME BadgesInv, [BadgesNext]_badgesVars
    PROVE  BadgesInv' /\ BadgesStep
<1>0. /\ badge \in [Serials -> Card \cup {NoCard}]
      /\ counter \in [Counters -> AtBadgeDesk \cup {NoRequest}] /\ OneLiveBadge
  BY DEF BadgesInv
<1>1. badge' = badge => OneLiveBadge' /\ badge' \in [Serials -> Card \cup {NoCard}] /\ Had
  BY <1>0 DEF OneLiveBadge, LiveBadges, Revives, Had
<1>2. ASSUME NEW k \in Counters, ~AtCounterFree(k)
      PROVE  counter[k] \in AtBadgeDesk /\ DeskOK(counter[k]) /\ counter[k] # NoRequest
  BY <1>2, <1>0 DEF AtCounterFree, BadgesInv
<1>3. ASSUME NEW k \in Counters, counter' = [counter EXCEPT ![k] = NoRequest],
             badge' = badge
      PROVE  BadgesInv' /\ Had
  BY <1>1, <1>3, CounterMoves
<1>4. ASSUME NEW k \in Counters, NEW r \in AtBadgeDesk, DeskOK(r),
             counter' = [counter EXCEPT ![k] = r], badge' = badge
      PROVE  BadgesInv' /\ Had
  BY <1>1, <1>4, CounterMoves
<1>5. ASSUME NEW k \in Counters, NEW d \in Bearers, AsksForBadge(k, d)
      PROVE  BadgesInv' /\ Had
  <2> DEFINE r == [op |-> "issue", at |-> "serial", driver |-> d, of |-> 0,
                   row |-> NoCard, serial |-> 0, tries |-> 0]
  <2>1. r \in AtBadgeDesk /\ DeskOK(r)
    BY BadgesAssumption DEF AtBadgeDesk, DeskOK, BadgesAssumption
  <2>2. counter' = [counter EXCEPT ![k] = r] /\ badge' = badge
    BY <1>5 DEF AsksForBadge
  <2> HIDE DEF r
  <2> QED BY <1>4, <2>1, <2>2
<1>6. ASSUME NEW k \in Counters, NEW n \in Serials,
             NEW op \in {"activate", "revoke", "lost", "replace", "printed"},
             AsksAbout(k, n, op),
             op = "activate" => badge[n].status = "pending_activation"
      PROVE  BadgesInv' /\ Had
  <2> DEFINE r == [op |-> op, at |-> "save", driver |-> badge[n].driver, of |-> n,
                   row |-> badge[n], serial |-> 0, tries |-> 0]
  <2>1. badge[n] \in Card BY <1>0, <1>6 DEF AsksAbout
  <2>2. badge[n].driver \in Bearers BY <2>1 DEF Card
  <2>3. r \in AtBadgeDesk
    BY <2>1, <2>2, BadgesAssumption DEF AtBadgeDesk, BadgesAssumption, Serials
  <2>4. DeskOK(r) BY <1>6, <2>1 DEF DeskOK
  <2>5. counter' = [counter EXCEPT ![k] = r] /\ badge' = badge
    BY <1>6 DEF AsksAbout
  <2> HIDE DEF r
  <2> QED BY <1>4, <2>3, <2>4, <2>5
<1>7. ASSUME NEW k \in Counters, NEW n \in Serials,
             AsksToValidate(k, n) \/ AsksToRevoke(k, n) \/ AsksToReplace(k, n)
                \/ AsksToPrint(k, n)
      PROVE  BadgesInv' /\ Had
  <2>1. CASE AsksToValidate(k, n) BY <1>6, <2>1 DEF AsksToValidate
  <2>2. CASE AsksToRevoke(k, n) BY <1>6, <2>2 DEF AsksToRevoke
  <2>3. CASE AsksToReplace(k, n) BY <1>6, <2>3 DEF AsksToReplace
  <2>4. CASE AsksToPrint(k, n) BY <1>6, <2>4 DEF AsksToPrint
  <2> QED BY <1>7, <2>1, <2>2, <2>3, <2>4
<1>8. ASSUME NEW k \in Counters, SavesBadge(k) PROVE BadgesInv' /\ Had
  <2> DEFINE row == Stamped(counter[k].op, counter[k].row)
             next == IF counter[k].op = "replace"
                     THEN [counter[k] EXCEPT !.at = "serial", !.row = row]
                     ELSE NoRequest
  <2>1. /\ counter[k] \in AtBadgeDesk /\ DeskOK(counter[k]) /\ counter[k] # NoRequest
        /\ counter[k].at = "save"
        /\ badge' = IF Fits(counter[k].of, row)
                    THEN [badge EXCEPT ![counter[k].of] = row] ELSE badge
        /\ counter' = [counter EXCEPT ![k] = next]
    BY <1>2, <1>8 DEF SavesBadge
  <2>2. /\ row \in Card /\ counter[k].of \in Serials
        /\ row.status \in LIVE_BADGE_STATUSES =>
              counter[k].row.status \in LIVE_BADGE_STATUSES
        /\ counter[k].op = "replace" => row.status = "replaced"
    BY <2>1, StampedFacts
  <2> HIDE DEF row
  <2>3. /\ next \in AtBadgeDesk \cup {NoRequest} /\ next # counter[k]
        /\ next # NoRequest => DeskOK(next)
    BY <2>1, <2>2 DEF AtBadgeDesk, DeskOK
  <2> HIDE DEF next
  <2>4. badge' \in [Serials -> Card \cup {NoCard}] /\ OneLiveBadge'
    BY <1>1, <2>1, <2>2, FitsKeeps
  <2>5. BadgesInv' /\ counter'[k] = next BY <2>1, <2>3, <2>4, CounterMoves
  <2>6. ASSUME NEW n \in Serials, Revives(n) PROVE HadIt(n)
    <3>1. n = counter[k].of /\ badge'[n] = row
      BY <1>0, <2>1, <2>2, <2>6 DEF Revives
    <3>2. counter[k].row.status \in LIVE_BADGE_STATUSES BY <2>2, <2>6, <3>1 DEF Revives
    <3> QED BY <2>3, <2>5, <3>1, <3>2 DEF HadIt
  <2> QED BY <2>5, <2>6 DEF Had
<1>9. ASSUME NEW k \in Counters, NumbersBadge(k) PROVE BadgesInv' /\ Had
  <2> DEFINE highest == CHOOSE n \in 0..MaxSerial :
                            /\ n = 0 \/ badge[n] # NoCard
                            /\ \A i \in Serials : badge[i] # NoCard => i <= n
             r == [counter[k] EXCEPT !.serial = highest + 1, !.at = "insert"]
  <2>1. /\ counter[k] \in AtBadgeDesk /\ DeskOK(counter[k]) /\ counter[k].at = "serial"
        /\ highest < MaxSerial /\ badge' = badge
        /\ counter' = [counter EXCEPT ![k].serial = highest + 1, ![k].at = "insert"]
    BY <1>2, <1>9 DEF NumbersBadge
  <2>2. highest \in 0..MaxSerial BY NextSerial
  <2>3. highest + 1 \in 0..MaxSerial
    BY <2>1, <2>2, BadgesAssumption DEF BadgesAssumption
  <2> HIDE DEF highest
  <2>4. r \in AtBadgeDesk /\ DeskOK(r) BY <2>1, <2>3 DEF AtBadgeDesk, DeskOK
  <2>5. counter' = [counter EXCEPT ![k] = r] BY <1>0, <2>1
  <2> HIDE DEF r
  <2> QED BY <1>4, <2>1, <2>4, <2>5
<1>10. ASSUME NEW k \in Counters, InsertsBadge(k) PROVE BadgesInv' /\ Had
  <2> DEFINE row == [driver |-> counter[k].driver, status |-> "pending_activation",
                     heir |-> 0]
             done == IF counter[k].op = "replace" THEN [counter[k] EXCEPT !.at = "heir"]
                     ELSE NoRequest
             again == IF counter[k].tries < MaxIssues - 1
                      THEN [counter[k] EXCEPT !.at = "serial", !.tries = @ + 1]
                      ELSE NoRequest
  <2>1. counter[k] \in AtBadgeDesk /\ DeskOK(counter[k]) /\ counter[k] # NoRequest
        /\ counter[k].at = "insert"
    BY <1>2, <1>10 DEF InsertsBadge
  <2>2. \/ /\ Fits(counter[k].serial, row)
           /\ badge' = [badge EXCEPT ![counter[k].serial] = row]
           /\ counter' = [counter EXCEPT ![k] = done]
        \/ badge' = badge /\ counter' = [counter EXCEPT ![k] = again]
    BY <1>10 DEF InsertsBadge
  <2>3. row \in Card
    BY <2>1, BadgesAssumption DEF Card, AtBadgeDesk, BadgeStatus, BadgesAssumption
  <2>4. done \in AtBadgeDesk \cup {NoRequest} /\ (done # NoRequest => DeskOK(done))
    BY <2>1 DEF AtBadgeDesk, DeskOK
  <2>5. done # counter[k] BY <2>1 DEF AtBadgeDesk
  <2>6. again \in AtBadgeDesk \cup {NoRequest} /\ (again # NoRequest => DeskOK(again))
    <3>1. CASE counter[k].tries < MaxIssues - 1
      <4>1. counter[k].tries \in 0..MaxIssues BY <2>1 DEF AtBadgeDesk
      <4>2. counter[k].tries + 1 \in 0..MaxIssues
        BY <3>1, <4>1, BadgesAssumption DEF BadgesAssumption
      <4> QED BY <2>1, <3>1, <4>2 DEF AtBadgeDesk, DeskOK
    <3>2. CASE ~(counter[k].tries < MaxIssues - 1) BY <3>2
    <3> QED BY <3>1, <3>2
  <2> HIDE DEF row, done, again
  <2>7. CASE badge' = badge /\ counter' = [counter EXCEPT ![k] = again]
    BY <1>1, <2>6, <2>7, CounterMoves
  <2>8. CASE /\ Fits(counter[k].serial, row)
             /\ badge' = [badge EXCEPT ![counter[k].serial] = row]
             /\ counter' = [counter EXCEPT ![k] = done]
    <3>1. badge' \in [Serials -> Card \cup {NoCard}] /\ OneLiveBadge'
      <4>1. CASE counter[k].serial \in Serials BY <2>3, <2>8, <4>1, FitsKeeps
      <4>2. CASE counter[k].serial \notin Serials BY <1>0, <1>1, <2>8, <4>2
      <4> QED BY <4>1, <4>2
    <3>2. BadgesInv' /\ counter'[k] = done BY <2>4, <2>8, <3>1, CounterMoves
    <3>3. ASSUME NEW n \in Serials, Revives(n) PROVE HadIt(n)
      <4>1. n = counter[k].serial BY <1>0, <2>8, <3>3 DEF Revives
      <4> QED BY <2>1, <2>5, <3>2, <4>1 DEF HadIt
    <3> QED BY <3>2, <3>3 DEF Had
  <2> QED BY <2>2, <2>7, <2>8
<1>11. ASSUME NEW k \in Counters, NamesHeir(k) PROVE BadgesInv' /\ Had
  <2> DEFINE row == [counter[k].row EXCEPT !.heir = counter[k].serial]
  <2>1. /\ counter[k] \in AtBadgeDesk /\ DeskOK(counter[k]) /\ counter[k].at = "heir"
        /\ badge' = [badge EXCEPT ![counter[k].of] = row]
        /\ counter' = [counter EXCEPT ![k] = NoRequest]
    BY <1>2, <1>11 DEF NamesHeir
  <2>2. counter[k].of \in Serials /\ counter[k].row \in Card
        /\ counter[k].row.status = "replaced"
    BY <2>1 DEF DeskOK
  <2>3. row \in Card /\ row.status = "replaced" BY <2>1, <2>2 DEF Card, AtBadgeDesk
  <2> HIDE DEF row
  <2>4. Fits(counter[k].of, row) BY <2>3 DEF Fits, LIVE_BADGE_STATUSES
  <2>5. BadgesInv' BY <2>1, <2>2, <2>3, <2>4, FitsKeeps, CounterMoves
  <2>6. ASSUME NEW n \in Serials, Revives(n) PROVE FALSE
    BY <1>0, <2>1, <2>2, <2>3, <2>6 DEF Revives, LIVE_BADGE_STATUSES
  <2> QED BY <2>5, <2>6 DEF Had
<1>12. ASSUME NEW k \in Counters, BreaksOff(k) PROVE BadgesInv' /\ Had
  BY <1>3, <1>12 DEF BreaksOff
<1>13. ASSUME UNCHANGED badgesVars PROVE BadgesInv' /\ Had
  <2>1. badge' = badge /\ counter' = counter BY <1>13 DEF badgesVars
  <2>2. \A k \in Counters : counter'[k] # NoRequest => DeskOK(counter'[k])
    BY <2>1 DEF BadgesInv
  <2>3. counter' \in [Counters -> AtBadgeDesk \cup {NoRequest}] BY <1>0, <2>1
  <2> QED BY <1>1, <2>1, <2>2, <2>3 DEF BadgesInv
<1>14. BadgesInv' /\ Had
  <2>1. ASSUME NEW k \in Counters,
               \/ SavesBadge(k) \/ NumbersBadge(k) \/ InsertsBadge(k) \/ NamesHeir(k)
               \/ BreaksOff(k)
        PROVE  BadgesInv' /\ Had
    BY <1>8, <1>9, <1>10, <1>11, <1>12, <2>1
  <2>2. ASSUME NEW k \in Counters, NEW d \in Bearers, AsksForBadge(k, d)
        PROVE  BadgesInv' /\ Had
    BY <1>5, <2>2
  <2>3. ASSUME NEW k \in Counters, NEW n \in Serials,
               \/ AsksToValidate(k, n) \/ AsksToRevoke(k, n)
               \/ AsksToReplace(k, n) \/ AsksToPrint(k, n)
        PROVE  BadgesInv' /\ Had
    BY <1>7, <2>3
  <2> QED BY <1>13, <2>1, <2>2, <2>3 DEF BadgesNext
<1>15. \A d \in Bearers : Cardinality(LiveBadges(d)') <= 1
  BY <1>14, AtMostOne DEF BadgesInv, OneLiveBadge
<1> QED BY <1>14, <1>15 DEF BadgesStep, Revives, HadIt, Had

-----------------------------------------------------------------------------
(* A driver's application                                                   *)

\* An approved row has every document and a reviewed NIN.
ApprovedOK(row) == row.status = "approved" => allDocsPresent(row) /\ row.nin

\* What a request holds: a row as some moment had it, a review's of a complete
\* application; a file once its image is processed.
FilingOK(call) ==
    /\ ApprovedOK(call.row)
    /\ call.op = "approved" => allDocsPresent(call.row)
    /\ call.fresh => call.op = "onboarding"
    /\ call.op \in {"upload", "replace"} /\ call.at = "save" => call.file # 0
    /\ call.at \in {"image", "unlink"} => call.op \in {"upload", "replace"}

\* Before two requests have met, a request has read the row that is there, no
\* file is named twice, and the file that is to go is not named any more.
OnDisk(row, files) == \A p \in Papers : row.paper[p] \in files \cup {0}
NamedOnce(row) ==
    \A p, o \in Papers : row.paper[p] = row.paper[o] => p = o \/ row.paper[p] = 0
AloneOK(call, row, files) ==
    /\ call.at # "unlink" => call.row = IF row = NoProfile THEN Blank ELSE row
    /\ call.at # "unlink" => call.old = call.row.paper[call.paper]
    /\ call.at = "save" /\ call.op \in {"upload", "replace"} =>
          call.file \in files /\ \A p \in Papers : call.row.paper[p] # call.file
    /\ call.at = "unlink" =>
          row # NoProfile /\ \A p \in Papers : row.paper[p] # call.old

Alone ==
    /\ profile # NoProfile => OnDisk(profile, disk) /\ NamedOnce(profile)
    /\ \A q, o \in Filings : ~NoneFiled(q) /\ ~NoneFiled(o) => q = o
    /\ \A q \in Filings : ~NoneFiled(q) => AloneOK(filing[q], profile, disk)

FileInv ==
    /\ profile \in Profile \cup {NoProfile} /\ disk \subseteq 1..uploaded
    /\ uploaded \in 0..MaxFiles /\ filings \in 0..MaxFilings /\ crossed \in BOOLEAN
    /\ filing \in [Filings -> Filed \cup {NoFiling}]
    /\ profile # NoProfile => ApprovedOK(profile)
    /\ \A q \in Filings : ~NoneFiled(q) => FilingOK(filing[q])
    /\ ~crossed => Alone

LEMMA FileInvInit == DriverFileInit => FileInv
<1> SUFFICES ASSUME DriverFileInit PROVE FileInv OBVIOUS
<1>1. uploaded \in 0..MaxFiles /\ filings \in 0..MaxFilings /\ disk \subseteq 1..uploaded
  BY DriverFileAssumption DEF DriverFileInit, DriverFileAssumption
<1>2. filing \in [Filings -> Filed \cup {NoFiling}] /\ \A q \in Filings : NoneFiled(q)
  BY DEF DriverFileInit, NoneFiled
<1> QED BY <1>1, <1>2 DEF DriverFileInit, FileInv, Alone

LEMMA BlankFacts ==
    /\ Blank \in Profile /\ ApprovedOK(Blank) /\ NamedOnce(Blank)
    /\ \A p \in Papers : Blank.paper[p] = 0
    /\ NoProfile \notin Profile /\ NoFiling \notin Filed
<1>1. Blank \in Profile /\ \A p \in Papers : Blank.paper[p] = 0
  BY DriverFileAssumption DEF Blank, Profile, DriverStatus, DriverFileAssumption
<1>2. ApprovedOK(Blank) BY DEF Blank, ApprovedOK
<1>3. NamedOnce(Blank) BY <1>1 DEF NamedOnce
<1>4. NoProfile \notin Profile BY DEF NoProfile, Profile, DriverStatus
<1>5. NoFiling \notin Filed BY DEF NoFiling, Filed, FilingOp, Ruling
<1> QED BY <1>1, <1>2, <1>3, <1>4, <1>5

\* What a request makes of the row it read.
LEMMA EnteredFacts ==
    ASSUME NEW call \in Filed, FilingOK(call), call.at = "save"
    PROVE  LET row == Entered(call.op, call.row, call.paper, call.file) IN
           /\ row \in Profile /\ ApprovedOK(row)
           /\ row.status = "approved" =>
                 call.op = "approved" \/ call.row.status = "approved"
           /\ call.op = "onboarding" => row.status # "approved"
           /\ row.paper = IF call.op \in {"upload", "replace"}
                          THEN [call.row.paper EXCEPT ![call.paper] = call.file]
                          ELSE call.row.paper
<1> DEFINE row == Entered(call.op, call.row, call.paper, call.file)
           with == [call.row EXCEPT !.paper[call.paper] = call.file]
<1>0. /\ call.row \in Profile /\ call.paper \in Papers /\ call.file \in 0..MaxFiles
      /\ call.op \in FilingOp /\ call.row.paper \in [Papers -> 0..MaxFiles]
  BY DEF Filed, Profile
<1> DEFINE paper == [call.row.paper EXCEPT ![call.paper] = call.file]
<1>1. paper \in [Papers -> 0..MaxFiles] BY <1>0
<1>2. with = [call.row EXCEPT !.paper = paper] OBVIOUS
<1>3. /\ with \in Profile /\ with.paper = paper /\ with.status = call.row.status
      /\ with.nin = call.row.nin
  <2> HIDE DEF paper
  <2> QED BY <1>0, <1>1, <1>2 DEF Profile
<1>4. call.file # 0 /\ allDocsPresent(call.row) => allDocsPresent(with)
  BY <1>0, <1>3 DEF allDocsPresent
<1> HIDE DEF with, paper
<1>5. CASE call.op = "upload"
  <2>1. row = [with EXCEPT !.status = IF allDocsPresent(with) THEN "pending_review"
                                      ELSE @]
    BY <1>5 DEF Entered, with
  <2>2. row \in Profile /\ row.paper = paper /\ row.nin = with.nin
        /\ row.status = IF allDocsPresent(with) THEN "pending_review" ELSE with.status
    BY <1>3, <2>1 DEF Profile, DriverStatus
  <2>3. row.status # "approved"
    BY <1>3, <1>4, <1>5, <2>2 DEF FilingOK, ApprovedOK
  <2> QED BY <1>5, <2>2, <2>3 DEF paper, ApprovedOK
<1>6. CASE call.op = "replace"
  <2>1. row = with BY <1>6 DEF Entered, with
  <2>2. ApprovedOK(with) BY <1>3, <1>4, <1>6 DEF FilingOK, ApprovedOK
  <2> QED BY <1>3, <1>6, <2>1, <2>2 DEF paper
<1>7. CASE call.op \notin {"upload", "replace"}
  <2>1. /\ row \in Profile /\ row.paper = call.row.paper
        /\ row.status = "approved" =>
              row.nin /\ (call.op = "approved" \/ call.row.status = "approved")
        /\ call.op = "onboarding" => row.status # "approved"
    BY <1>0, <1>7 DEF Entered, Profile, DriverStatus, FilingOp, Ruling, FilingOK,
                      ApprovedOK
  <2>2. row.status = "approved" => allDocsPresent(call.row)
    BY <2>1 DEF FilingOK, ApprovedOK
  <2>3. ApprovedOK(row) BY <2>1, <2>2 DEF ApprovedOK, allDocsPresent
  <2> QED BY <1>7, <2>1, <2>3
<1> QED BY <1>5, <1>6, <1>7

\* A driver becomes approved by a review, or by a request that had read it so.
Becomes == profile.status # "approved" /\ profile'.status = "approved"
ByReview ==
    \E q \in Filings :
        /\ filing[q] # filing'[q]
        /\ filing[q].op = "approved" \/ filing[q].row.status = "approved"

\* A request that moves on, or ends.
LEMMA FilingMoves ==
    ASSUME FileInv, NEW q \in Filings, NEW r \in Filed \cup {NoFiling},
           r # NoFiling => FilingOK(r), filing' = [filing EXCEPT ![q] = r]
    PROVE  /\ filing' \in [Filings -> Filed \cup {NoFiling}] /\ filing'[q] = r
           /\ \A o \in Filings \ {q} : filing'[o] = filing[o]
           /\ \A o \in Filings : filing'[o] # NoFiling => FilingOK(filing'[o])
BY DEF FileInv, NoneFiled

\* The one request of an uncrossed file moves on, or ends.
LEMMA StaysAlone ==
    ASSUME FileInv, ~crossed, NEW q \in Filings, NEW r \in Filed \cup {NoFiling},
           filing' = [filing EXCEPT ![q] = r],
           \A o \in Filings \ {q} : NoneFiled(o),
           profile' # NoProfile => OnDisk(profile', disk') /\ NamedOnce(profile'),
           r # NoFiling => AloneOK(r, profile', disk')
    PROVE  Alone'
<1>1. /\ filing'[q] = r /\ \A o \in Filings \ {q} : filing'[o] = NoFiling
  BY DEF FileInv, NoneFiled
<1>2. \A o, i \in Filings : filing'[o] # NoFiling /\ filing'[i] # NoFiling => o = i
  BY <1>1
<1>3. ASSUME NEW o \in Filings, filing'[o] # NoFiling
      PROVE  AloneOK(filing'[o], profile', disk')
  <2>1. o = q BY <1>1, <1>3
  <2> QED BY <1>1, <1>3, <2>1 DEF AloneOK
<1> QED BY <1>2, <1>3 DEF Alone, NoneFiled

LEMMA FileInvStep ==
    ASSUME FileInv, [DriverFileNext]_driverFileVars
    PROVE  FileInv' /\ (Becomes => ByReview)
<1>0. /\ profile \in Profile \cup {NoProfile} /\ disk \subseteq 1..uploaded
      /\ uploaded \in 0..MaxFiles /\ filings \in 0..MaxFilings /\ crossed \in BOOLEAN
      /\ filing \in [Filings -> Filed \cup {NoFiling}]
      /\ profile # NoProfile => ApprovedOK(profile)
      /\ MaxFiles \in Nat /\ MaxFilings \in Nat /\ Papers # {}
  BY DriverFileAssumption DEF FileInv, DriverFileAssumption
<1>1. ASSUME NEW q \in Filings, ~NoneFiled(q)
      PROVE  /\ filing[q] \in Filed /\ FilingOK(filing[q]) /\ filing[q] # NoFiling
             /\ ~crossed => /\ AloneOK(filing[q], profile, disk)
                            /\ \A o \in Filings \ {q} : NoneFiled(o)
  <2>1. filing[q] \in Filed /\ FilingOK(filing[q]) /\ filing[q] # NoFiling
    BY <1>1 DEF NoneFiled, FileInv
  <2> QED BY <1>1, <2>1 DEF FileInv, Alone
<1>2. profile' = profile => ~Becomes BY DEF Becomes
<1>3. ASSUME NEW q \in Filings, NEW op \in FilingOp, NEW p \in Papers,
             NEW first \in {"image", "save"}, Files(q, op, p, first),
             first = "image" <=> op \in {"upload", "replace"}
      PROVE  FileInv' /\ ~Becomes
  <2> DEFINE row == IF profile = NoProfile THEN Blank ELSE profile
             r == [op |-> op, at |-> first, row |-> row, fresh |-> profile = NoProfile,
                   paper |-> p, file |-> 0, old |-> row.paper[p]]
  <2>1. /\ filing' = [filing EXCEPT ![q] = r] /\ filings' = filings + 1
        /\ crossed' = (crossed \/ \E o \in Filings : ~NoneFiled(o))
        /\ UNCHANGED <<profile, disk, uploaded>> /\ filings < MaxFilings
        /\ MayFile(op, row) /\ (profile = NoProfile => op = "onboarding")
    BY <1>3 DEF Files
  <2>2. row \in Profile /\ ApprovedOK(row) BY <1>0, BlankFacts
  <2>3. row.paper[p] \in 0..MaxFiles BY <2>2 DEF Profile
  <2>4. r \in Filed
    <3> HIDE DEF row
    <3> QED BY <1>0, <2>2, <2>3 DEF Filed
  <2>5. FilingOK(r)
    <3> HIDE DEF row
    <3> QED BY <1>3, <2>1, <2>2 DEF FilingOK, MayFile
  <2>6. r # NoFiling BY <2>4, BlankFacts
  <2>7. ~crossed' => AloneOK(r, profile', disk')
    <3>1. profile' = profile BY <2>1
    <3> HIDE DEF row
    <3>2. /\ r.at \in {"image", "save"} /\ r.row = row /\ r.old = row.paper[p]
          /\ r.paper = p /\ r.op = op /\ r.at = first
      OBVIOUS
    <3>3. row = IF profile' = NoProfile THEN Blank ELSE profile' BY <3>1 DEF row
    <3> HIDE DEF r
    <3> QED BY <1>3, <3>2, <3>3 DEF AloneOK
  <2> HIDE DEF row, r
  <2>8. /\ filing' \in [Filings -> Filed \cup {NoFiling}]
        /\ \A o \in Filings : filing'[o] # NoFiling => FilingOK(filing'[o])
    BY <2>1, <2>4, <2>5, FilingMoves
  <2>9. ASSUME ~crossed' PROVE Alone'
    <3>1. ~crossed /\ \A o \in Filings : NoneFiled(o) BY <2>1, <2>9
    <3>2. profile' # NoProfile => OnDisk(profile', disk') /\ NamedOnce(profile')
      BY <2>1, <3>1 DEF FileInv, Alone, OnDisk, NamedOnce
    <3> QED BY <2>1, <2>4, <2>7, <2>9, <3>1, <3>2, StaysAlone
  <2>10. crossed' \in BOOLEAN /\ filings' \in 0..MaxFilings BY <1>0, <2>1
  <2>11. FileInv'
    BY <1>0, <2>1, <2>8, <2>9, <2>10 DEF FileInv, NoneFiled, ApprovedOK, allDocsPresent
  <2> QED BY <1>2, <2>1, <2>11
<1>4. ASSUME NEW q \in Filings,
             \/ Onboards(q) \/ EditsProfile(q) \/ VerifiesNin(q) \/ ReviewsDriver(q)
             \/ Uploads(q) \/ ReplacesPaper(q)
      PROVE  FileInv' /\ ~Becomes
  <2>1. (CHOOSE p \in Papers : TRUE) \in Papers BY <1>0
  <2>2. ASSUME NEW op \in FilingOp \ {"upload", "replace"}, FilesForm(q, op)
        PROVE  FileInv' /\ ~Becomes
    BY <1>3, <2>1, <2>2 DEF FilesForm
  <2> QED BY <1>3, <1>4, <2>2 DEF Onboards, EditsProfile, VerifiesNin, ReviewsDriver,
          Uploads, ReplacesPaper, FilingOp, Ruling
<1>5. ASSUME NEW q \in Filings, NEW r \in Filed \cup {NoFiling},
             r # NoFiling => FilingOK(r), filing' = [filing EXCEPT ![q] = r],
             profile' \in Profile \cup {NoProfile},
             profile' # NoProfile => ApprovedOK(profile'),
             disk' \subseteq 1..uploaded', uploaded' \in 0..MaxFiles,
             UNCHANGED <<filings, crossed>>, ~crossed => Alone'
      PROVE  FileInv'
  <2>1. /\ filing' \in [Filings -> Filed \cup {NoFiling}]
        /\ \A o \in Filings : filing'[o] # NoFiling => FilingOK(filing'[o])
    BY <1>5, FilingMoves
  <2> QED BY <1>0, <1>5, <2>1 DEF FileInv, NoneFiled
<1>6. ASSUME NEW q \in Filings, ProcessesImage(q) PROVE FileInv' /\ ~Becomes
  <2>1. /\ ~NoneFiled(q) /\ filing[q].at = "image"
        /\ UNCHANGED <<profile, filings, crossed>>
    BY <1>6 DEF ProcessesImage
  <2>2. CASE /\ uploaded < MaxFiles /\ uploaded' = uploaded + 1
             /\ disk' = disk \cup {uploaded'}
             /\ filing' = [filing EXCEPT ![q].at = "save", ![q].file = uploaded']
    <3> DEFINE r == [filing[q] EXCEPT !.at = "save", !.file = uploaded']
    <3>1. uploaded' \in 0..MaxFiles /\ uploaded' \notin disk /\ uploaded' # 0
      BY <1>0, <2>2
    <3>2. disk' \subseteq 1..uploaded' BY <1>0, <2>2
    <3>3. /\ r \in Filed /\ r.row = filing[q].row /\ r.op = filing[q].op
          /\ r.file = uploaded' /\ r.at = "save" /\ r.fresh = filing[q].fresh
          /\ r.old = filing[q].old /\ r.paper = filing[q].paper
      BY <1>1, <2>1, <3>1 DEF Filed
    <3>4. filing' = [filing EXCEPT ![q] = r] BY <1>0, <2>2
    <3> HIDE DEF r
    <3>5. FilingOK(r) BY <1>1, <2>1, <3>1, <3>3 DEF FilingOK
    <3>6. ASSUME ~crossed PROVE Alone'
      <4>1. AloneOK(filing[q], profile, disk) /\ \A o \in Filings \ {q} : NoneFiled(o)
        BY <1>1, <2>1, <3>6
      <4>2. profile # NoProfile => OnDisk(profile, disk) /\ NamedOnce(profile)
        BY <3>6 DEF FileInv, Alone
      <4>3. profile' # NoProfile => OnDisk(profile', disk') /\ NamedOnce(profile')
        BY <2>1, <2>2, <4>2 DEF OnDisk, NamedOnce
      <4>4. r.row = IF profile = NoProfile THEN Blank ELSE profile
        BY <2>1, <3>3, <4>1 DEF AloneOK
      <4>5. \A p \in Papers : r.row.paper[p] # uploaded'
        BY <3>1, <4>2, <4>4, BlankFacts DEF OnDisk
      <4>6. AloneOK(r, profile', disk')
        <5>1. profile' = profile /\ uploaded' \in disk' BY <2>1, <2>2
        <5>2. r.old = r.row.paper[r.paper] BY <2>1, <3>3, <4>1 DEF AloneOK
        <5> QED BY <3>3, <4>4, <4>5, <5>1, <5>2 DEF AloneOK
      <4> QED BY <3>3, <3>4, <3>6, <4>1, <4>3, <4>6, StaysAlone
    <3> QED BY <1>0, <1>2, <1>5, <2>1, <3>1, <3>2, <3>3, <3>4, <3>5, <3>6
  <2>3. CASE filing' = [filing EXCEPT ![q] = NoFiling] /\ UNCHANGED <<uploaded, disk>>
    <3>1. ASSUME ~crossed PROVE Alone'
      <4>1. \A o \in Filings \ {q} : NoneFiled(o) BY <1>1, <2>1, <3>1
      <4>2. profile' # NoProfile => OnDisk(profile', disk') /\ NamedOnce(profile')
        BY <2>1, <2>3, <3>1 DEF FileInv, Alone, OnDisk, NamedOnce
      <4> QED BY <2>3, <3>1, <4>1, <4>2, StaysAlone
    <3> QED BY <1>0, <1>2, <1>5, <2>1, <2>3, <3>1
  <2> QED BY <1>6, <2>2, <2>3 DEF ProcessesImage
<1>7. ASSUME NEW q \in Filings, SavesProfile(q) PROVE FileInv' /\ (Becomes => ByReview)
  <2> DEFINE call == filing[q]
             row == Entered(call.op, call.row, call.paper, call.file)
             merged == [profile EXCEPT !.status = row.status]
             r == IF call.op = "replace" /\ call.old # 0
                  THEN [call EXCEPT !.at = "unlink"] ELSE NoFiling
  <2>1. /\ ~NoneFiled(q) /\ call.at = "save"
        /\ profile' = IF call.fresh /\ profile # NoProfile THEN merged ELSE row
        /\ filing' = [filing EXCEPT ![q] = r]
        /\ UNCHANGED <<disk, uploaded, filings, crossed>>
    BY <1>7 DEF SavesProfile
  <2>2. call \in Filed /\ FilingOK(call) /\ call # NoFiling BY <1>1, <2>1
  <2>3. /\ row \in Profile /\ ApprovedOK(row)
        /\ row.status = "approved" =>
              call.op = "approved" \/ call.row.status = "approved"
        /\ call.op = "onboarding" => row.status # "approved"
        /\ row.paper = IF call.op \in {"upload", "replace"}
                       THEN [call.row.paper EXCEPT ![call.paper] = call.file]
                       ELSE call.row.paper
    BY <2>1, <2>2, EnteredFacts
  <2> HIDE DEF row
  <2>4. profile # NoProfile =>
            merged \in Profile /\ merged.status = row.status /\ merged.paper = profile.paper
    BY <1>0, <2>3 DEF Profile
  <2> HIDE DEF merged
  <2>5. /\ profile' \in Profile /\ ApprovedOK(profile') /\ profile' # NoProfile
        /\ profile'.status = row.status
    <3>1. CASE call.fresh /\ profile # NoProfile
      <4>1. row.status # "approved" BY <2>2, <2>3, <3>1 DEF FilingOK
      <4> QED BY <2>1, <2>4, <3>1, <4>1, BlankFacts DEF ApprovedOK
    <3>2. CASE ~(call.fresh /\ profile # NoProfile) BY <2>1, <2>3, <3>2, BlankFacts
    <3> QED BY <3>1, <3>2
  <2>6. /\ r \in Filed \cup {NoFiling} /\ r # call
        /\ r # NoFiling => /\ r.at = "unlink" /\ r.op = "replace" /\ r.row = call.row
                           /\ call.op = "replace"
                           /\ r.fresh = call.fresh /\ r.old = call.old /\ r.old # 0
    BY <2>1, <2>2 DEF Filed
  <2> HIDE DEF r
  <2>7. r # NoFiling => FilingOK(r) BY <2>2, <2>6 DEF FilingOK
  <2>8. ASSUME ~crossed PROVE Alone'
    <3>1. AloneOK(call, profile, disk) /\ \A o \in Filings \ {q} : NoneFiled(o)
      BY <1>1, <2>1, <2>8
    <3>2. call.row = IF profile = NoProfile THEN Blank ELSE profile
      BY <2>1, <3>1 DEF AloneOK
    <3>3. call.old = call.row.paper[call.paper] BY <2>1, <3>1 DEF AloneOK
    <3>4. profile # NoProfile => OnDisk(profile, disk) /\ NamedOnce(profile)
      BY <2>8 DEF FileInv, Alone
    <3>5. OnDisk(call.row, disk) /\ NamedOnce(call.row)
      BY <3>2, <3>4, BlankFacts DEF OnDisk
    <3>6. /\ call.row.paper \in [Papers -> 0..MaxFiles] /\ call.paper \in Papers
          /\ call.row \in Profile
      BY <2>2 DEF Filed, Profile
    <3>7. CASE call.op \notin {"upload", "replace"}
      <4>1. profile'.paper = call.row.paper BY <2>1, <2>3, <2>4, <3>2, <3>7
      <4>2. r = NoFiling BY <2>6, <3>7 DEF r
      <4>3. OnDisk(profile', disk') /\ NamedOnce(profile')
        BY <2>1, <3>5, <4>1 DEF OnDisk, NamedOnce
      <4> QED BY <2>1, <2>6, <2>8, <3>1, <4>2, <4>3, StaysAlone
    <3>8. CASE call.op \in {"upload", "replace"}
      <4>1. call.file \in disk /\ \A p \in Papers : call.row.paper[p] # call.file
        BY <2>1, <3>1, <3>8 DEF AloneOK
      <4>2. ~call.fresh BY <2>2, <3>8 DEF FilingOK
      <4>3. profile'.paper = [call.row.paper EXCEPT ![call.paper] = call.file]
        BY <2>1, <2>3, <3>8, <4>2
      <4>4. /\ profile'.paper[call.paper] = call.file
            /\ \A p \in Papers \ {call.paper} : profile'.paper[p] = call.row.paper[p]
        BY <3>6, <4>3
      <4>5. OnDisk(profile', disk') BY <2>1, <3>5, <4>1, <4>4 DEF OnDisk
      <4>6. NamedOnce(profile') BY <3>5, <4>1, <4>4 DEF NamedOnce
      <4>7. ASSUME r # NoFiling PROVE AloneOK(r, profile', disk')
        <5>1. r.old = call.row.paper[call.paper] /\ r.old # 0 BY <2>6, <3>3, <4>7
        <5>2. \A p \in Papers : profile'.paper[p] # r.old
          BY <3>5, <3>6, <4>1, <4>4, <5>1 DEF NamedOnce
        <5> QED BY <2>5, <2>6, <4>7, <5>2 DEF AloneOK
      <4> QED BY <2>1, <2>6, <2>8, <3>1, <4>5, <4>6, <4>7, StaysAlone
    <3> QED BY <3>7, <3>8
  <2>9. FileInv' BY <1>0, <1>5, <2>1, <2>5, <2>6, <2>7, <2>8
  <2>10. filing'[q] = r BY <1>0, <2>1
  <2>11. Becomes => ByReview BY <2>3, <2>5, <2>6, <2>10 DEF Becomes, ByReview
  <2> QED BY <2>9, <2>11
<1>8. ASSUME NEW q \in Filings, RemovesOld(q) PROVE FileInv' /\ ~Becomes
  <2>1. /\ ~NoneFiled(q) /\ filing[q].at = "unlink"
        /\ disk' \in {disk, disk \ {filing[q].old}}
        /\ filing' = [filing EXCEPT ![q] = NoFiling]
        /\ UNCHANGED <<profile, uploaded, filings, crossed>>
    BY <1>8 DEF RemovesOld
  <2>2. ASSUME ~crossed PROVE Alone'
    <3>1. AloneOK(filing[q], profile, disk) /\ \A o \in Filings \ {q} : NoneFiled(o)
      BY <1>1, <2>1, <2>2
    <3>2. \A p \in Papers : profile.paper[p] # filing[q].old
      BY <2>1, <3>1 DEF AloneOK
    <3>3. profile # NoProfile => OnDisk(profile, disk) /\ NamedOnce(profile)
      BY <2>2 DEF FileInv, Alone
    <3>4. profile' # NoProfile => OnDisk(profile', disk') /\ NamedOnce(profile')
      BY <2>1, <3>2, <3>3 DEF OnDisk, NamedOnce
    <3> QED BY <2>1, <2>2, <3>1, <3>4, StaysAlone
  <2>3. disk' \subseteq 1..uploaded' BY <1>0, <2>1
  <2> QED BY <1>0, <1>2, <1>5, <2>1, <2>2, <2>3
<1>9. ASSUME UNCHANGED driverFileVars PROVE FileInv' /\ ~Becomes
  <2>1. UNCHANGED <<profile, disk, uploaded, filing, filings, crossed>>
    BY <1>9 DEF driverFileVars
  <2> QED BY <1>2, <2>1
          DEF FileInv, ApprovedOK, allDocsPresent, NoneFiled, Alone, OnDisk, NamedOnce,
              AloneOK
<1> QED BY <1>4, <1>6, <1>7, <1>8, <1>9 DEF DriverFileNext

LEMMA FileStepHolds ==
    ASSUME FileInv, [DriverFileNext]_driverFileVars
    PROVE  DriverFileStep
<1>1. FileInv' /\ (Becomes => ByReview) BY FileInvStep
<1>2. profile'.status = "approved" => allDocsPresent(profile') /\ profile'.nin
  BY <1>1 DEF FileInv, ApprovedOK, NoProfile
<1>3. profile' # NoProfile /\ ~crossed' =>
          \A p \in Papers : profile'.paper[p] \in disk' \cup {0}
  BY <1>1 DEF FileInv, Alone, OnDisk
<1> QED BY <1>1, <1>2, <1>3 DEF DriverFileStep, Becomes, ByReview

-----------------------------------------------------------------------------
(* The records together                                                     *)

RecordsInv == ParkRowsInv /\ BadgesInv /\ FileInv /\ AccountsInv

LEMMA RecordSteps ==
    [StaffNext]_staffVars =>
        /\ [ParkAdminNext]_parkAdminVars /\ [BadgesNext]_badgesVars
        /\ [DriverFileNext]_driverFileVars /\ [AccountsNext]_accountVars
BY DEF StaffNext, staffVars

\* What the row of a park, a badge and a driver's file promises stands, however
\* the saves of whole old rows overlap (park_service.ts:242-455, badge_service.ts:
\* 150-397, driver_routes.ts:27-266): in every step, for every number of managers,
\* counters, requests, serials, documents and files.
THEOREM RecordsTrue == StaffSpec => RecordsStand
<1>1. StaffInit => RecordsInv
  BY ParkRowsInit, BadgesInvInit, FileInvInit, AccountsStart DEF StaffInit, RecordsInv
<1>2. RecordsInv /\ [StaffNext]_staffVars =>
          RecordsInv' /\ ParkStep /\ BadgesStep /\ DriverFileStep /\ AccountStep
  BY RecordSteps, ParkRowsStep, BadgesInvStep, FileInvStep, FileStepHolds,
     AccountsStepKeeps, AccountSteps DEF RecordsInv
<1> QED BY <1>1, <1>2, PTL DEF StaffSpec, RecordsStand

-----------------------------------------------------------------------------
(* A park's drivers                                                         *)

ListGroup == {"recommended", "available", "wallet_blocked", "verification_issue",
              "returning_soon", "unavailable"}
Blocker == {"not_active", "outside_hours", "no_driver_present",
            "present_but_unassignable", "dispatch_suspended"}

\* The shapes of what a screen holds.
ListedRow == [assignable : BOOLEAN, group : ListGroup, owed : SUBSET Problem,
              declined : BOOLEAN]
ListAsked == [of : {"list"}, at : {"roster"}, still : BOOLEAN,
              declined : SUBSET FloorDrivers]
ListShown == [of : {"list"}, at : {"ready"}, still : BOOLEAN,
              rows : UNION {[D -> ListedRow] : D \in SUBSET FloorDrivers}]
ReportAsked == [of : {"board", "centre"}, at : {"park"}, still : BOOLEAN,
                anyone : BOOLEAN, paused : BOOLEAN]
ParkRead == [of : {"board", "centre"}, at : {"counts"}, still : BOOLEAN,
             anyone : BOOLEAN, paused : BOOLEAN,
             active : BOOLEAN, open : BOOLEAN, off : BOOLEAN]
ParkCounted == [of : {"board", "centre"}, at : {"assignable"}, still : BOOLEAN,
                anyone : BOOLEAN, paused : BOOLEAN,
                active : BOOLEAN, open : BOOLEAN, off : BOOLEAN,
                present : BOOLEAN, staffed : BOOLEAN]
ParkDescribed == [of : {"board", "centre"}, at : {"ready", "again"}, still : BOOLEAN,
                  anyone : BOOLEAN, paused : BOOLEAN,
                  open : BOOLEAN, off : BOOLEAN, assignable : BOOLEAN,
                  staffed : BOOLEAN, blockers : SUBSET Blocker]
ParkJudged == [of : {"centre"}, at : {"ready"}, still : BOOLEAN,
               blockers : SUBSET Blocker, health : {"green", "amber", "red"}]
Reports == ListAsked \cup ListShown \cup ReportAsked \cup ParkRead
           \cup ParkCounted \cup ParkDescribed \cup ParkJudged

Tapped == [at : {"idle", "shift", "members", "papers", "presence", "zone",
                 "refused", "handed"},
           driver : FloorDrivers \cup {NoPick},
           row : RosterEntry \cup {{}}
                 \cup {"shift", "roster", "problems", "presence", "zone"},
           unread : SUBSET PaperKinds, still : BOOLEAN]
Gate == [active : BOOLEAN, open : BOOLEAN, staffed : BOOLEAN, off : BOOLEAN,
         requireWaitingDriver : BOOLEAN]

FloorShape ==
    /\ floor \in [FloorDrivers -> RosterEntry]
    /\ gate \in Gate
    /\ report \in Reports \cup {Nothing}
    /\ pick \in Tapped
    /\ met \subseteq Requirement /\ turns \in 0..MaxTurns
    /\ pick.at # "idle" => pick.driver \in FloorDrivers
    /\ pick.at = "papers" => pick.row \in RosterEntry /\ pick.row.roster # "off"

\* What the driver of an assignment met since the tap, by how far it came.
MetInv ==
    /\ pick.at # "idle" => Meets(floor, gate, pick.driver) \subseteq met
    /\ pick.at \in {"members", "papers", "presence", "zone", "handed"} =>
          "shift" \in met
    /\ pick.at = "papers" =>
          /\ pick.row.roster = "active" => "roster" \in met
          /\ pick.row.kyc = "approved" => "kyc" \in met
          /\ ~pick.row.owes => "owes" \in met
          /\ pick.row.badge => "badge" \in met
    /\ pick.at \in {"presence", "zone", "handed"} =>
          {"roster", "kyc", "owes", "badge"} \subseteq met
    /\ pick.at \in {"zone", "handed"} => "presence" \in met

\* While nothing changed since the list, what the assignment found is so.
StillSo ==
    pick.still /\ pick.at # "idle" =>
       LET e == floor[pick.driver] IN
       /\ pick.at = "papers" => pick.row = e
       /\ pick.at \in {"presence", "zone", "handed"} =>
             e.roster # "off" /\ Blocking(assignabilityProblems(e)) = {}
       /\ pick.at \in {"zone", "handed"} =>
             e.place = "here" /\ e.presence \in ASSIGNABLE_PRESENCE_STATES
       /\ pick.at = "refused" =>
             \/ pick.row \in {"zone", "shift"}
             \/ pick.row = "roster" /\ e.roster = "off"
             \/ pick.row = "problems" /\ Blocking(assignabilityProblems(e)) # {}
             \/ /\ pick.row = "presence"
                /\ ~(e.place = "here" /\ e.presence \in ASSIGNABLE_PRESENCE_STATES)

\* A list names whom it calls assignable or soon back, and while nothing changed
\* it is the park's roster.
RowsSound ==
    report \in ListShown => \A d \in DOMAIN report.rows :
       /\ report.rows[d].group = "returning_soon" =>
             report.rows[d].owed \subseteq {"driver_not_approved", "driver_suspended"}
       /\ report.rows[d].declined => ~report.rows[d].assignable
ListInv ==
    report \in ListShown /\ report.still =>
       /\ DOMAIN report.rows = {d \in FloorDrivers : floor[d].roster # "off"}
       /\ \A d \in DOMAIN report.rows :
             report.rows[d].assignable <=>
                /\ Blocking(assignabilityProblems(floor[d])) = {}
                /\ floor[d].presence \in ASSIGNABLE_PRESENCE_STATES
                /\ ~report.rows[d].declined

\* While nothing changed, a report's readings are the park's rows.
Somebody == \E d \in FloorDrivers :
    floor[d].roster # "off" /\ groupFor(floor[d], FALSE) = "available"
Anybody == \E d \in FloorDrivers : FreeOfProblems(floor[d])
BoardSaw == (report.anyone <=> Somebody) /\ (report.paused <=> gate.off)
GateSaw == /\ report.active <=> gate.active
           /\ report.open <=> gate.open
           /\ report.off <=> gate.off
Verdict == /\ report.blockers = {} => OffersHere
           /\ report.blockers # {} /\ OffersHere => ~Anybody
           /\ report.blockers = {} /\ gate.requireWaitingDriver => Anybody
Judgement == /\ gate.active /\ gate.open /\ (~gate.staffed \/ ~Anybody) =>
                   report.health = "red"
             /\ gate.active /\ ~gate.open => report.health = "green"
ReadingsInv ==
    report \in Reports /\ report.still =>
       /\ report.of = "board" => BoardSaw
       /\ report \in ParkRead \cup ParkCounted => GateSaw
       /\ report \in ParkCounted => /\ report.present <=> AssignableHere # {}
                                    /\ report.staffed <=> gate.staffed
       /\ report \in ParkDescribed => /\ report.open <=> gate.open
                                      /\ report.assignable <=> Anybody
                                      /\ Verdict
       /\ report \in ParkJudged => Verdict /\ Judgement
       /\ report.of = "centre" /\ report.at = "ready" => report \in ParkJudged

FloorInv == FloorShape /\ MetInv /\ StillSo /\ RowsSound /\ ListInv /\ ReadingsInv

LEMMA FloorInvInit == FloorInit => FloorInv
<1> SUFFICES ASSUME FloorInit PROVE FloorInv
  OBVIOUS
<1>1. Nothing \notin Reports /\ Nothing.of = "none"
  BY DEF Nothing, Reports, ListAsked, ListShown, ReportAsked, ParkRead, ParkCounted,
         ParkDescribed, ParkJudged
<1>2. NoTap \in Tapped /\ NoTap.at = "idle"
  BY DEF NoTap, Tapped
<1>3. Ready \in RosterEntry
  BY DEF Ready, RosterEntry, Presence, Place
<1>4. FloorShape
  <2>1. gate \in Gate
    BY DEF FloorInit, Gate
  <2>2. floor \in [FloorDrivers -> RosterEntry]
    BY <1>3 DEF FloorInit
  <2>3. met \subseteq Requirement /\ turns \in 0..MaxTurns
    BY FloorAssumption DEF FloorInit
  <2> QED
    BY <1>1, <1>2, <2>1, <2>2, <2>3 DEF FloorInit, FloorShape
<1>5. MetInv /\ StillSo
  BY <1>2 DEF FloorInit, MetInv, StillSo
<1>6. RowsSound /\ ListInv /\ ReadingsInv
  BY <1>1 DEF FloorInit, RowsSound, ListInv, ReadingsInv, Reports
<1> QED
  BY <1>4, <1>5, <1>6 DEF FloorInv

-----------------------------------------------------------------------------

\* Whatever a screen holds, it is no longer fresh.
LEMMA StillOff ==
    ASSUME NEW r \in Reports
    PROVE  LET q == [r EXCEPT !.still = FALSE] IN
           /\ q \in Reports /\ ~q.still
           /\ q \in ListShown => r \in ListShown /\ q.rows = r.rows
<1> DEFINE q == [r EXCEPT !.still = FALSE]
<1>1. CASE r \in ListAsked
  BY <1>1 DEF Reports, ListAsked, ListShown
<1>2. CASE r \in ListShown
  BY <1>2 DEF Reports, ListShown
<1>3. CASE r \in ReportAsked
  BY <1>3 DEF Reports, ReportAsked, ListShown
<1>4. CASE r \in ParkRead
  BY <1>4 DEF Reports, ParkRead, ListShown
<1>5. CASE r \in ParkCounted
  BY <1>5 DEF Reports, ParkCounted, ListShown
<1>6. CASE r \in ParkDescribed
  BY <1>6 DEF Reports, ParkDescribed, ListShown
<1>7. CASE r \in ParkJudged
  BY <1>7 DEF Reports, ParkJudged, ListShown
<1> QED
  BY <1>1, <1>2, <1>3, <1>4, <1>5, <1>6, <1>7 DEF Reports

\* When the world turns, nothing that was read is called fresh any more, and what
\* the driver meets now counts.
LEMMA FloorWorldStep ==
    ASSUME FloorInv, Turn, Watches(floor', gate'),
           floor' \in [FloorDrivers -> RosterEntry], gate' \in Gate
    PROVE  FloorInv'
<1>1. /\ report \in Reports \cup {Nothing} /\ pick \in Tapped
      /\ pick.at # "idle" => pick.driver \in FloorDrivers
      /\ turns' = turns + 1 /\ turns < MaxTurns
      /\ pick' = [pick EXCEPT !.still = FALSE]
  BY DEF FloorInv, FloorShape, Turn
<1>2. /\ pick' \in Tapped /\ pick'.at = pick.at /\ pick'.driver = pick.driver
      /\ pick'.row = pick.row /\ ~pick'.still
  BY <1>1 DEF Tapped
<1>3. /\ report' \in Reports \cup {Nothing}
      /\ report' \in Reports => ~report'.still
      /\ report' \in ListShown => report \in ListShown /\ report'.rows = report.rows
  <2>1. CASE report = Nothing
    <3>1. Nothing \notin Reports
      BY DEF Nothing, Reports, ListAsked, ListShown, ReportAsked, ParkRead, ParkCounted,
             ParkDescribed, ParkJudged
    <3> QED
      BY <2>1, <3>1 DEF Turn, Reports
  <2>2. CASE report # Nothing
    BY <1>1, <2>2, StillOff DEF Turn
  <2> QED
    BY <2>1, <2>2
<1>4. /\ met' \subseteq Requirement
      /\ pick.at # "idle" => met \subseteq met' /\ Meets(floor', gate', pick.driver) \subseteq met'
  <2>1. Meets(floor', gate', pick.driver) \subseteq Requirement
    BY DEF Meets
  <2>2. pick.at # "idle" => pick.driver # NoPick
    BY <1>1, FloorAssumption
  <2> QED
    BY <2>1, <2>2 DEF Watches, FloorInv, FloorShape
<1>5. FloorShape'
  <2>1. turns' \in 0..MaxTurns
    BY <1>1, FloorAssumption DEF FloorInv, FloorShape
  <2>2. pick'.at = "papers" => pick'.row \in RosterEntry /\ pick'.row.roster # "off"
    BY <1>2 DEF FloorInv, FloorShape
  <2> QED
    BY <1>1, <1>2, <1>3, <1>4, <2>1, <2>2 DEF FloorShape
<1>6. MetInv'
  BY <1>2, <1>4 DEF FloorInv, MetInv
<1>7. StillSo'
  BY <1>2 DEF StillSo
<1>8. RowsSound'
  BY <1>3 DEF FloorInv, RowsSound
<1>9. ListInv' /\ ReadingsInv'
  BY <1>3 DEF ListInv, ReadingsInv, Reports
<1> QED
  BY <1>5, <1>6, <1>7, <1>8, <1>9 DEF FloorInv

LEMMA FloorWorld == ASSUME FloorInv, WorldTurns PROVE FloorInv'
<1>0. /\ floor \in [FloorDrivers -> RosterEntry] /\ gate \in Gate
  BY DEF FloorInv, FloorShape
<1>1. ASSUME NEW d \in FloorDrivers, NEW to \in Presence, NEW at \in Place,
             PresenceChanges(d, to, at)
      PROVE  FloorInv'
  <2> DEFINE e == [[floor[d] EXCEPT !.presence = to] EXCEPT !.place = at]
  <2>1. floor[d] \in RosterEntry
    BY <1>0
  <2>2. e \in RosterEntry
    BY <2>1 DEF RosterEntry
  <2>3. floor' = [floor EXCEPT ![d] = e]
    BY <1>0, <1>1 DEF PresenceChanges
  <2> HIDE DEF e
  <2>4. floor' \in [FloorDrivers -> RosterEntry]
    BY <1>0, <2>2, <2>3
  <2>5. Turn /\ Watches(floor', gate) /\ gate' = gate
    BY <1>1 DEF PresenceChanges
  <2> QED
    BY <1>0, <2>4, <2>5, FloorWorldStep
<1>2. ASSUME NEW d \in FloorDrivers, FileChanges(d) PROVE FloorInv'
  <2>1. floor[d] \in RosterEntry
    BY <1>0
  <2>2. /\ \A r \in {"off", "active", "suspended"} :
              [floor[d] EXCEPT !.roster = r] \in RosterEntry
        /\ \A k \in {"approved", "pending", "barred"} :
              [floor[d] EXCEPT !.kyc = k] \in RosterEntry
        /\ [floor[d] EXCEPT !.owes = ~@] \in RosterEntry
        /\ [floor[d] EXCEPT !.badge = ~@] \in RosterEntry
    BY <2>1 DEF RosterEntry
  <2>3. \E e \in RosterEntry : floor' = [floor EXCEPT ![d] = e]
    BY <1>2, <2>2 DEF FileChanges
  <2>4. floor' \in [FloorDrivers -> RosterEntry]
    BY <1>0, <2>3
  <2>5. Turn /\ Watches(floor', gate) /\ gate' = gate
    BY <1>2 DEF FileChanges
  <2> QED
    BY <1>0, <2>4, <2>5, FloorWorldStep
<1>3. ASSUME NEW f \in {"active", "open", "staffed", "off"}, GateTurns(f)
      PROVE  FloorInv'
  <2>1. gate' \in Gate
    BY <1>0, <1>3 DEF GateTurns, Gate
  <2>2. Turn /\ Watches(floor, gate') /\ floor' = floor
    BY <1>3 DEF GateTurns
  <2> QED
    BY <1>0, <2>1, <2>2, FloorWorldStep
<1> QED
  BY <1>1, <1>2, <1>3 DEF WorldTurns, ParkTurns, HoursTurn, ShiftTurns, SwitchTurns

-----------------------------------------------------------------------------

\* A step of a screen leaves the assignment alone, and the other way round.
LEMMA AssignFrame ==
    ASSUME FloorInv, UNCHANGED <<floor, gate, pick, met, turns>>
    PROVE  /\ MetInv' /\ StillSo'
           /\ report' \in Reports \cup {Nothing} => FloorShape'
<1>1. MetInv'
  BY DEF FloorInv, MetInv
<1>2. StillSo'
  BY DEF FloorInv, StillSo
<1> QED
  BY <1>1, <1>2 DEF FloorInv, FloorShape

LEMMA ScreenFrame ==
    ASSUME FloorInv, UNCHANGED <<floor, gate, report>>
    PROVE  RowsSound' /\ ListInv' /\ ReadingsInv'
<1>1. RowsSound' /\ ListInv'
  BY DEF FloorInv, RowsSound, ListInv
<1>2. /\ Somebody' = Somebody /\ Anybody' = Anybody
      /\ AssignableHere' = AssignableHere /\ OffersHere' = OffersHere
  BY DEF Somebody, Anybody, AssignableHere, OffersHere, Selectable
<1>3. ReadingsInv'
  BY <1>2 DEF FloorInv, ReadingsInv, BoardSaw, GateSaw, Verdict, Judgement
<1> QED
  BY <1>1, <1>3

-----------------------------------------------------------------------------
(* The list *)

\* Who is listed as free has no problem that blocks; who is listed as soon back
\* owes nothing, has a badge and is not suspended from the roster.
LEMMA GroupsSay ==
    ASSUME NEW e \in RosterEntry, NEW declined \in BOOLEAN
    PROVE  /\ groupFor(e, declined) \in ListGroup \ {"recommended"}
           /\ groupFor(e, declined) = "available" <=>
                 /\ Blocking(assignabilityProblems(e)) = {}
                 /\ e.presence \in ASSIGNABLE_PRESENCE_STATES
                 /\ ~declined
           /\ groupFor(e, declined) = "returning_soon" =>
                 Blocking(assignabilityProblems(e))
                    \subseteq {"driver_not_approved", "driver_suspended"}
<1>1. groupFor(e, declined) \in ListGroup \ {"recommended"}
  BY DEF groupFor, ListGroup
<1>2. groupFor(e, declined) = "available" <=>
                 /\ Blocking(assignabilityProblems(e)) = {}
                 /\ e.presence \in ASSIGNABLE_PRESENCE_STATES
                 /\ ~declined
  BY DEF groupFor
<1>3. groupFor(e, declined) = "returning_soon" =>
         assignabilityProblems(e) \cap {"wallet_blocked", "no_badge", "roster_suspended"} = {}
  BY DEF groupFor
<1>4. assignabilityProblems(e) \subseteq Problem
  BY DEF assignabilityProblems
<1>5. groupFor(e, declined) = "returning_soon" =>
         Blocking(assignabilityProblems(e))
            \subseteq {"driver_not_approved", "driver_suspended"}
  BY <1>3, <1>4 DEF Blocking, Problem
<1> QED
  BY <1>1, <1>2, <1>5

LEMMA FloorList ==
    ASSUME FloorInv, ListGoesOn
    PROVE  FloorInv'
<1>1. UNCHANGED <<floor, gate, pick, met, turns>>
  BY DEF ListGoesOn, LoadsList, ListRanks
<1>2. ASSUME NEW declined \in SUBSET FloorDrivers, LoadsList(declined)
      PROVE  FloorInv'
  <2>1. report' \in ListAsked
    BY <1>2 DEF LoadsList, ListAsked
  <2>2. /\ report' \notin ListShown /\ report'.of = "list" /\ report'.at = "roster"
        /\ report' \notin ParkRead \cup ParkCounted \cup ParkDescribed \cup ParkJudged
    BY <2>1 DEF ListAsked, ListShown, ParkRead, ParkCounted, ParkDescribed, ParkJudged
  <2>3. RowsSound' /\ ListInv' /\ ReadingsInv'
    BY <2>2 DEF RowsSound, ListInv, ReadingsInv
  <2> QED
    BY <1>1, <2>1, <2>3, AssignFrame DEF FloorInv, Reports
<1>3. ASSUME NEW top \in FloorDrivers \cup {NoPick}, ListRanks(top)
      PROVE  FloorInv'
  <2> DEFINE members == {e \in FloorDrivers : floor[e].roster # "off"}
             rows == [d \in members |-> floor[d]]
             out == report.declined
             ranked == Ranked(rows, out, top)
  <2>1. /\ report \in ListAsked
        /\ report' = [of |-> "list", at |-> "ready", still |-> report.still,
                      rows |-> ranked]
        /\ top = NoPick \/ groupFor(rows[top], top \in out) = "available"
        /\ top # NoPick => top \in members
    <3>1. report \in ListAsked
      BY <1>3 DEF FloorInv, FloorShape, ListRanks, Reports, Nothing, ListAsked, ListShown,
                  ReportAsked, ParkRead, ParkCounted, ParkDescribed, ParkJudged
    <3> QED
      BY <1>3, <3>1 DEF ListRanks
  <2>2. DOMAIN rows = members /\ \A d \in members : rows[d] = floor[d] /\ floor[d] \in RosterEntry
    BY DEF FloorInv, FloorShape
  <2>3. /\ DOMAIN ranked = members
        /\ \A d \in members :
              /\ ranked[d].assignable <=> groupFor(floor[d], d \in out) = "available"
              /\ ranked[d].declined <=> d \in out
              /\ ranked[d].owed = Blocking(assignabilityProblems(floor[d]))
              /\ ranked[d].group \in {"recommended", groupFor(floor[d], d \in out)}
              /\ ranked[d] \in ListedRow
    <3>1. DOMAIN ranked = members
      BY <2>2 DEF Ranked
    <3>2. ASSUME NEW d \in members
          PROVE  /\ ranked[d].assignable <=> groupFor(floor[d], d \in out) = "available"
                 /\ ranked[d].declined <=> d \in out
                 /\ ranked[d].owed = Blocking(assignabilityProblems(floor[d]))
                 /\ ranked[d].group \in {"recommended", groupFor(floor[d], d \in out)}
                 /\ ranked[d] \in ListedRow
      <4> DEFINE c == d \in out
                 g == groupFor(floor[d], c)
                 a == g = "available"
                 w == Blocking(assignabilityProblems(floor[d]))
                 h == IF d = top THEN "recommended" ELSE g
      <4>1. ranked[d] = [assignable |-> a, group |-> h, owed |-> w, declined |-> c]
        BY <2>2 DEF Ranked
      <4>2. w \subseteq Problem
        BY DEF Blocking, assignabilityProblems
      <4>3. c \in BOOLEAN /\ a \in BOOLEAN
        OBVIOUS
      <4> HIDE DEF c, a, w
      <4>4. g \in ListGroup
        BY <2>2, <4>3, GroupsSay
      <4>5. h \in ListGroup /\ h \in {"recommended", g}
        BY <4>4 DEF ListGroup
      <4> HIDE DEF g, h
      <4>6. ranked[d] \in ListedRow
        BY <4>1, <4>2, <4>3, <4>5 DEF ListedRow
      <4>7. /\ ranked[d].assignable = a /\ ranked[d].declined = c
            /\ ranked[d].owed = w /\ ranked[d].group \in {"recommended", g}
        BY <4>1, <4>5
      <4> QED
        BY <4>6, <4>7 DEF a, c, g, w
    <3> QED
      BY <3>1, <3>2
  <2>4. ranked \in [members -> ListedRow]
    <3>1. ranked = [d \in members |-> ranked[d]]
      BY <2>2 DEF Ranked
    <3> HIDE DEF ranked
    <3> QED
      BY <2>3, <3>1
  <2> HIDE DEF ranked
  <2>5. report' \in ListShown /\ report'.rows = ranked
    <3>1. members \in SUBSET FloorDrivers
      OBVIOUS
    <3>2. ranked \in UNION {[D -> ListedRow] : D \in SUBSET FloorDrivers}
      BY <2>4, <3>1
    <3> QED
      BY <2>1, <3>2 DEF ListShown, ListAsked
  <2>6. RowsSound'
    <3>1. ASSUME NEW d \in members
          PROVE  /\ ranked[d].group = "returning_soon" =>
                       ranked[d].owed \subseteq {"driver_not_approved", "driver_suspended"}
                 /\ ranked[d].declined => ~ranked[d].assignable
      <4>1. (d \in out) \in BOOLEAN
        OBVIOUS
      <4>3. floor[d] \in RosterEntry
        BY <2>2
      <4> DEFINE g == groupFor(floor[d], d \in out)
                 w == Blocking(assignabilityProblems(floor[d]))
      <4>2. /\ g = "available" => ~(d \in out)
            /\ g = "returning_soon" => w \subseteq {"driver_not_approved", "driver_suspended"}
        BY <4>1, <4>3, GroupsSay
      <4>4. /\ ranked[d].assignable <=> g = "available"
            /\ ranked[d].declined <=> d \in out
            /\ ranked[d].owed = w
            /\ ranked[d].group \in {"recommended", g}
        BY <2>3
      <4> HIDE DEF g, w, out
      <4> QED
        BY <4>2, <4>4
    <3> QED
      BY <2>3, <2>5, <3>1 DEF RowsSound
  <2>7. ListInv'
    <3>1. \A d \in members :
             ranked[d].assignable <=>
                /\ Blocking(assignabilityProblems(floor[d])) = {}
                /\ floor[d].presence \in ASSIGNABLE_PRESENCE_STATES
                /\ ~ranked[d].declined
      <4> TAKE d \in members
      <4>1. (d \in out) \in BOOLEAN
        OBVIOUS
      <4>3. floor[d] \in RosterEntry
        BY <2>2
      <4> QED
        BY <2>3, <4>1, <4>3, GroupsSay
    <3>2. floor' = floor
      BY <1>1
    <3> QED
      BY <2>3, <2>5, <3>1, <3>2 DEF ListInv
  <2>8. ReadingsInv'
    <3>1. /\ report'.of = "list"
          /\ report' \notin ParkRead \cup ParkCounted \cup ParkDescribed \cup ParkJudged
      BY <2>5 DEF ListShown, ParkRead, ParkCounted, ParkDescribed, ParkJudged
    <3> QED
      BY <3>1 DEF ReadingsInv
  <2> QED
    BY <1>1, <2>5, <2>6, <2>7, <2>8, AssignFrame DEF FloorInv, Reports
<1> QED
  BY <1>2, <1>3 DEF ListGoesOn

-----------------------------------------------------------------------------
(* The assignment *)

\* What an assignment finds of its driver is what it met.
LEMMA FloorAssign ==
    ASSUME FloorInv, AssignGoesOn
    PROVE  FloorInv'
<1>1. UNCHANGED <<floor, gate, report, turns>>
  BY DEF AssignGoesOn, Taps, ChecksShift, ChecksRoster, ReadsPapers, ChecksProblems,
         ChecksPresence, ChecksZone
<1>2. /\ pick \in Tapped
      /\ pick.at # "idle" => pick.driver \in FloorDrivers
      /\ floor \in [FloorDrivers -> RosterEntry]
      /\ met \subseteq Requirement
  BY DEF FloorInv, FloorShape
<1>3. SUFFICES FloorShape' /\ MetInv' /\ StillSo'
  BY <1>1, ScreenFrame DEF FloorInv
<1> DEFINE d == pick.driver
           now == Meets(floor, gate, d)
\* A refusal, and a step to the next check.
<1>4. ASSUME NEW why \in {"shift", "roster", "problems", "presence", "zone"},
             Refuses(why), pick.at # "idle", met' = met,
             pick.still => \/ why \in {"zone", "shift"}
                           \/ why = "roster" /\ floor[d].roster = "off"
                           \/ why = "problems" /\ Blocking(assignabilityProblems(floor[d])) # {}
                           \/ /\ why = "presence"
                              /\ ~(/\ floor[d].place = "here"
                                   /\ floor[d].presence \in ASSIGNABLE_PRESENCE_STATES)
      PROVE  FloorShape' /\ MetInv' /\ StillSo'
  <2>1. /\ pick' \in Tapped /\ pick'.at = "refused" /\ pick'.driver = d
        /\ pick'.row = why /\ pick'.still = pick.still
    BY <1>2, <1>4 DEF Refuses, Tapped
  <2>2. FloorShape'
    BY <1>1, <1>2, <1>4, <2>1 DEF FloorInv, FloorShape
  <2>3. MetInv'
    BY <1>1, <1>4, <2>1 DEF FloorInv, MetInv
  <2>4. StillSo'
    BY <1>1, <1>4, <2>1 DEF StillSo
  <2> QED
    BY <2>2, <2>3, <2>4
<1>5. ASSUME NEW e \in FloorDrivers, Taps(e)
      PROVE  FloorShape' /\ MetInv' /\ StillSo'
  <2>1. report.still \in BOOLEAN
    <3>1. report \in ListShown
      BY <1>5 DEF Taps, FloorInv, FloorShape, Reports, Nothing, ListAsked, ListShown,
                  ReportAsked, ParkRead, ParkCounted, ParkDescribed, ParkJudged
    <3> QED
      BY <3>1 DEF ListShown
  <2>2. /\ pick' \in Tapped /\ pick'.at = "shift" /\ pick'.driver = e
    BY <1>5, <2>1 DEF Taps, NoTap, Tapped
  <2>3. met' = Meets(floor, gate, e) /\ met' \subseteq Requirement
    BY <1>5 DEF Taps, Meets
  <2>4. FloorShape'
    BY <1>1, <1>2, <2>2, <2>3 DEF FloorInv, FloorShape
  <2>5. MetInv' /\ StillSo'
    BY <1>1, <2>2, <2>3 DEF MetInv, StillSo
  <2> QED
    BY <2>4, <2>5
<1>6. ASSUME ChecksShift PROVE FloorShape' /\ MetInv' /\ StillSo'
  <2>1. pick.at = "shift" /\ met' = met
    BY <1>6 DEF ChecksShift
  <2>2. CASE gate.staffed
    <3>1. /\ pick' \in Tapped /\ pick'.at = "members" /\ pick'.driver = d
      BY <1>2, <1>6, <2>2 DEF ChecksShift, Tapped
    <3>2. "shift" \in met
      BY <2>1, <2>2 DEF FloorInv, MetInv, Meets, Requirement
    <3>3. MetInv' /\ StillSo'
      BY <1>1, <2>1, <3>1, <3>2 DEF FloorInv, MetInv, StillSo
    <3>4. FloorShape'
      BY <1>1, <1>2, <2>1, <3>1 DEF FloorInv, FloorShape
    <3> QED
      BY <3>3, <3>4
  <2>3. CASE ~gate.staffed
    BY <1>4, <1>6, <2>1, <2>3 DEF ChecksShift
  <2> QED
    BY <2>2, <2>3
<1>7. ASSUME ChecksRoster PROVE FloorShape' /\ MetInv' /\ StillSo'
  <2>1. pick.at = "members" /\ met' = met
    BY <1>7 DEF ChecksRoster
  <2>2. CASE floor[d].roster = "off"
    BY <1>4, <1>7, <2>1, <2>2 DEF ChecksRoster
  <2>3. CASE floor[d].roster # "off"
    <3>1. floor[d] \in RosterEntry
      BY <1>2, <2>1
    <3>2. /\ pick' \in Tapped /\ pick'.at = "papers" /\ pick'.driver = d
          /\ pick'.row = floor[d]
      BY <1>2, <1>7, <2>3, <3>1 DEF ChecksRoster, Tapped, PaperKinds
    <3>3. /\ floor[d].roster = "active" => "roster" \in met
          /\ floor[d].kyc = "approved" => "kyc" \in met
          /\ ~floor[d].owes => "owes" \in met
          /\ floor[d].badge => "badge" \in met
          /\ "shift" \in met
      BY <2>1 DEF FloorInv, MetInv, Meets, Requirement
    <3>4. MetInv' /\ StillSo'
      BY <1>1, <2>1, <3>2, <3>3 DEF FloorInv, MetInv, StillSo
    <3>5. FloorShape'
      BY <1>1, <1>2, <2>1, <2>3, <3>1, <3>2 DEF FloorInv, FloorShape
    <3> QED
      BY <3>4, <3>5
  <2> QED
    BY <2>2, <2>3
<1>8. ASSUME NEW what \in PaperKinds, ReadsPapers(what)
      PROVE  FloorShape' /\ MetInv' /\ StillSo'
  <2> DEFINE e == floor[d]
             row == Reread(pick.row, d, what)
  <2>1. /\ pick.at = "papers" /\ met' = met /\ e \in RosterEntry
        /\ pick.row \in RosterEntry /\ pick.row.roster # "off"
    BY <1>2, <1>8 DEF ReadsPapers, FloorInv, FloorShape
  <2>2. /\ row \in RosterEntry /\ row.roster = pick.row.roster
        /\ row.kyc \in {pick.row.kyc, e.kyc}
        /\ row.owes = pick.row.owes \/ row.owes = e.owes
        /\ row.badge = pick.row.badge \/ row.badge = e.badge
        /\ pick.row = e => row = e
    <3>1. CASE what = "kyc"
      BY <2>1, <3>1 DEF Reread, RosterEntry
    <3>2. CASE what = "owes"
      BY <2>1, <3>2 DEF Reread, RosterEntry
    <3>3. CASE what = "badge"
      BY <2>1, <3>3 DEF Reread, RosterEntry
    <3> QED
      BY <3>1, <3>2, <3>3 DEF PaperKinds
  <2> HIDE DEF row
  <2>3. /\ pick' \in Tapped /\ pick'.at = "papers" /\ pick'.driver = d
        /\ pick'.row = row /\ pick'.still = pick.still
    BY <1>2, <1>8, <2>1, <2>2 DEF ReadsPapers, Tapped, row
  <2>4. /\ e.kyc = "approved" => "kyc" \in met
        /\ ~e.owes => "owes" \in met
        /\ e.badge => "badge" \in met
    BY <2>1 DEF FloorInv, MetInv, Meets, Requirement
  <2>5. MetInv'
    <3>1. /\ row.roster = "active" => "roster" \in met
          /\ row.kyc = "approved" => "kyc" \in met
          /\ ~row.owes => "owes" \in met
          /\ row.badge => "badge" \in met
      BY <2>1, <2>2, <2>4 DEF FloorInv, MetInv
    <3> QED
      BY <1>1, <2>1, <2>3, <3>1 DEF FloorInv, MetInv
  <2>6. StillSo'
    BY <1>1, <2>1, <2>2, <2>3 DEF FloorInv, StillSo
  <2>7. FloorShape'
    BY <1>1, <1>2, <2>1, <2>2, <2>3 DEF FloorInv, FloorShape
  <2> QED
    BY <2>5, <2>6, <2>7
<1>9. ASSUME ChecksProblems PROVE FloorShape' /\ MetInv' /\ StillSo'
  <2> DEFINE w == Blocking(assignabilityProblems(pick.row))
  <2>1. /\ pick.at = "papers" /\ met' = met
        /\ pick.row \in RosterEntry /\ pick.row.roster # "off"
        /\ pick.still => pick.row = floor[d]
    BY <1>9 DEF ChecksProblems, FloorInv, FloorShape, StillSo
  <2>2. CASE w # {}
    BY <1>4, <1>9, <2>1, <2>2 DEF ChecksProblems
  <2>3. CASE w = {}
    <3>1. /\ pick' \in Tapped /\ pick'.at = "presence" /\ pick'.driver = d
          /\ pick'.still = pick.still
      BY <1>2, <1>9, <2>3 DEF ChecksProblems, Tapped
    <3>2. /\ pick.row.roster = "active" /\ pick.row.kyc = "approved"
          /\ ~pick.row.owes /\ pick.row.badge
      BY <2>1, <2>3 DEF Blocking, assignabilityProblems, Problem, RosterEntry
    <3>3. MetInv'
      BY <1>1, <2>1, <3>1, <3>2 DEF FloorInv, MetInv
    <3>4. StillSo'
      BY <1>1, <2>1, <2>3, <3>1 DEF StillSo
    <3>5. FloorShape'
      BY <1>1, <1>2, <2>1, <3>1 DEF FloorInv, FloorShape
    <3> QED
      BY <3>3, <3>4, <3>5
  <2> QED
    BY <2>2, <2>3
<1>10. ASSUME ChecksPresence PROVE FloorShape' /\ MetInv' /\ StillSo'
  <2>1. pick.at = "presence" /\ met' = met /\ d \in FloorDrivers
    BY <1>2, <1>10 DEF ChecksPresence
  <2>2. d \in AssignableHere <=>
           floor[d].place = "here" /\ floor[d].presence \in ASSIGNABLE_PRESENCE_STATES
    BY <2>1 DEF AssignableHere
  <2>3. CASE d \in AssignableHere
    <3>1. /\ pick' \in Tapped /\ pick'.at = "zone" /\ pick'.driver = d
          /\ pick'.still = pick.still
      BY <1>2, <1>10, <2>3 DEF ChecksPresence, Tapped
    <3>2. "presence" \in met
      BY <2>1, <2>2, <2>3 DEF FloorInv, MetInv, Meets, Requirement
    <3>3. MetInv'
      BY <1>1, <2>1, <3>1, <3>2 DEF FloorInv, MetInv
    <3>4. StillSo'
      BY <1>1, <2>1, <2>2, <2>3, <3>1 DEF FloorInv, StillSo
    <3>5. FloorShape'
      BY <1>1, <1>2, <2>1, <3>1 DEF FloorInv, FloorShape
    <3> QED
      BY <3>3, <3>4, <3>5
  <2>4. CASE d \notin AssignableHere
    <3>1. Refuses("presence")
      BY <1>10, <2>4 DEF ChecksPresence
    <3> QED
      BY <1>4, <2>1, <2>2, <2>4, <3>1
  <2> QED
    BY <2>3, <2>4
<1>11. ASSUME NEW refuse \in BOOLEAN, ChecksZone(refuse)
       PROVE  FloorShape' /\ MetInv' /\ StillSo'
  <2>1. pick.at = "zone" /\ met' = met
    BY <1>11 DEF ChecksZone
  <2>2. CASE refuse
    BY <1>4, <1>11, <2>1, <2>2 DEF ChecksZone
  <2>3. CASE ~refuse
    <3>1. /\ pick' \in Tapped /\ pick'.at = "handed" /\ pick'.driver = d
          /\ pick'.still = pick.still
      BY <1>2, <1>11, <2>3 DEF ChecksZone, Tapped
    <3>2. MetInv'
      BY <1>1, <2>1, <3>1 DEF FloorInv, MetInv
    <3>3. StillSo'
      BY <1>1, <2>1, <3>1 DEF FloorInv, StillSo
    <3>4. FloorShape'
      BY <1>1, <1>2, <2>1, <3>1 DEF FloorInv, FloorShape
    <3> QED
      BY <3>2, <3>3, <3>4
  <2> QED
    BY <2>2, <2>3
<1> QED
  BY <1>5, <1>6, <1>7, <1>8, <1>9, <1>10, <1>11 DEF AssignGoesOn

-----------------------------------------------------------------------------
(* The reports *)

\* Which shape a report has, by what it is of and how far it came.
LEMMA ShapeSays ==
    ASSUME NEW r \in Reports \cup {Nothing}
    PROVE  /\ r.of \in {"none", "list", "board", "centre"}
           /\ r.of = "list" /\ r.at = "ready" => r \in ListShown
           /\ r \in ListShown => r.of = "list" /\ r.at = "ready"
           /\ r.of \in {"board", "centre"} => r \in Reports \ (ListAsked \cup ListShown)
           /\ r.at = "park" => r \in ReportAsked
           /\ r.at = "counts" => r \in ParkRead
           /\ r.at = "assignable" => r \in ParkCounted
           /\ r.at = "again" => r \in ParkDescribed
           /\ r.of = "board" /\ r.at = "ready" => r \in ParkDescribed
<1>1. CASE r \in ListAsked \cup ListShown \cup {Nothing}
  BY <1>1 DEF Nothing, Reports, ListAsked, ListShown, ReportAsked, ParkRead,
              ParkCounted, ParkDescribed, ParkJudged
<1>2. CASE r \in ReportAsked
  BY <1>2 DEF Reports, ListAsked, ListShown, ReportAsked
<1>3. CASE r \in ParkRead
  BY <1>3 DEF Reports, ListAsked, ListShown, ParkRead
<1>4. CASE r \in ParkCounted
  BY <1>4 DEF Reports, ListAsked, ListShown, ParkCounted
<1>5. CASE r \in ParkDescribed
  BY <1>5 DEF Reports, ListAsked, ListShown, ParkDescribed
<1>6. CASE r \in ParkJudged
  BY <1>6 DEF Reports, ListAsked, ListShown, ParkJudged
<1> QED
  BY <1>1, <1>2, <1>3, <1>4, <1>5, <1>6 DEF Reports

\* A report that is no list says nothing of a list's rows.
LEMMA NoListNow ==
    ASSUME FloorInv, UNCHANGED <<floor, gate, pick, met, turns>>,
           report' \in Reports \cup {Nothing}, report' \notin ListShown, ReadingsInv'
    PROVE  FloorInv'
BY AssignFrame DEF FloorInv, RowsSound, ListInv

LEMMA SameFloor ==
    ASSUME UNCHANGED <<floor, gate>>
    PROVE  /\ Somebody' = Somebody /\ Anybody' = Anybody
           /\ AssignableHere' = AssignableHere /\ OffersHere' = OffersHere
BY DEF Somebody, Anybody, AssignableHere, OffersHere, Selectable

\* What keeps rides away, of readings that are so.
LEMMA BlockersSay ==
    ASSUME FloorInv, report \in ParkCounted, report.still, NEW a \in BOOLEAN,
           a <=> Anybody
    PROVE  LET w == blockers(report, a) IN
           /\ w \subseteq Blocker
           /\ w = {} => OffersHere
           /\ w # {} /\ OffersHere => ~Anybody
           /\ w = {} /\ gate.requireWaitingDriver => Anybody
<1> DEFINE w == blockers(report, a)
<1>1. w \subseteq Blocker
  BY DEF blockers, Blocker
<1>2. GateSaw /\ (report.present <=> AssignableHere # {})
  BY DEF FloorInv, ReadingsInv, Reports
<1>3. /\ "not_active" \in w <=> ~gate.active
      /\ "outside_hours" \in w <=> ~gate.open
      /\ "no_driver_present" \in w <=> gate.requireWaitingDriver /\ AssignableHere = {}
      /\ "present_but_unassignable" \in w <=> AssignableHere # {} /\ ~Anybody
      /\ "dispatch_suspended" \in w <=> gate.off
  BY <1>2 DEF blockers, GateSaw
<1> HIDE DEF w
<1>4. OffersHere <=> /\ ~gate.off /\ gate.active /\ gate.open
                     /\ gate.requireWaitingDriver => AssignableHere # {}
  BY DEF OffersHere, Selectable
<1>5. w = {} <=> /\ "not_active" \notin w /\ "outside_hours" \notin w
                 /\ "no_driver_present" \notin w
                 /\ "present_but_unassignable" \notin w
                 /\ "dispatch_suspended" \notin w
  BY <1>1 DEF Blocker
<1>6. /\ w = {} => OffersHere
      /\ w # {} /\ OffersHere => ~Anybody
      /\ w = {} /\ gate.requireWaitingDriver => Anybody
  BY <1>3, <1>4, <1>5
<1> QED
  BY <1>1, <1>6 DEF w

LEMMA FloorReports ==
    ASSUME FloorInv, ReportGoesOn
    PROVE  FloorInv'
<1>1. UNCHANGED <<floor, gate, pick, met, turns>>
  BY DEF ReportGoesOn, BoardReads, CentreReads, ReadsPark, ReadsCounts, Describes, Judges
<1>2. /\ Somebody' = Somebody /\ Anybody' = Anybody
      /\ AssignableHere' = AssignableHere /\ OffersHere' = OffersHere
      /\ gate' = gate /\ gate \in Gate
  BY <1>1, SameFloor DEF FloorInv, FloorShape
<1>3. report \in Reports \cup {Nothing}
  BY DEF FloorInv, FloorShape
<1>4. ASSUME BoardReads \/ CentreReads PROVE FloorInv'
  <2> DEFINE a == \E d \in FloorDrivers : /\ floor[d].roster # "off"
                                          /\ groupFor(floor[d], FALSE) = "available"
  <2>1. PICK of \in {"board", "centre"}, c \in BOOLEAN, p \in BOOLEAN :
           /\ report' = [of |-> of, at |-> "park", still |-> TRUE,
                         anyone |-> c, paused |-> p]
           /\ of = "board" => (c <=> Somebody) /\ (p <=> gate.off)
    <3>1. a \in BOOLEAN /\ (a <=> Somebody) /\ gate.off \in BOOLEAN
      BY <1>2 DEF Somebody, Gate
    <3> HIDE DEF a
    <3>2. CASE BoardReads
      <4>1. report' = [of |-> "board", at |-> "park", still |-> TRUE,
                       anyone |-> a, paused |-> gate.off]
        BY <3>2 DEF BoardReads, a
      <4> QED
        BY <3>1, <4>1
    <3>3. CASE CentreReads
      <4>1. report' = [of |-> "centre", at |-> "park", still |-> TRUE,
                       anyone |-> FALSE, paused |-> FALSE]
        BY <3>3 DEF CentreReads
      <4> QED
        BY <4>1
    <3> QED
      BY <1>4, <3>2, <3>3
  <2>3. /\ report' \in ReportAsked /\ report'.of = of
        /\ report'.anyone = c /\ report'.paused = p
    BY <2>1 DEF ReportAsked
  <2>4. /\ report' \notin ListShown \cup ParkRead \cup ParkCounted \cup ParkDescribed
                           \cup ParkJudged
        /\ report'.at # "ready"
    BY <2>3 DEF ReportAsked, ListShown, ParkRead, ParkCounted, ParkDescribed, ParkJudged
  <2>5. ReadingsInv'
    BY <1>2, <2>1, <2>3, <2>4 DEF ReadingsInv, BoardSaw
  <2> QED
    BY <1>1, <2>3, <2>4, <2>5, NoListNow DEF Reports
<1>5. ASSUME ReadsPark PROVE FloorInv'
  <2>1. report \in ReportAsked
    BY <1>3, <1>5, ShapeSays DEF ReadsPark
  <2>2. /\ report' \in ParkRead /\ report'.of = report.of /\ report'.still = report.still
        /\ report'.anyone = report.anyone /\ report'.paused = report.paused
        /\ report'.active = gate.active /\ report'.open = gate.open
        /\ report'.off = gate.off
    BY <1>2, <1>5, <2>1 DEF ReadsPark, ReportAsked, ParkRead, Gate
  <2>3. /\ report' \notin ListShown \cup ParkCounted \cup ParkDescribed \cup ParkJudged
        /\ report'.at # "ready"
    BY <2>2 DEF ListShown, ParkRead, ParkCounted, ParkDescribed, ParkJudged
  <2>4. report.still /\ report.of = "board" => BoardSaw
    BY <2>1 DEF FloorInv, ReadingsInv, Reports
  <2>5. ReadingsInv'
    BY <1>2, <2>2, <2>3, <2>4 DEF ReadingsInv, BoardSaw, GateSaw
  <2> QED
    BY <1>1, <2>2, <2>3, <2>5, NoListNow DEF Reports
<1>6. ASSUME ReadsCounts PROVE FloorInv'
  <2>1. report \in ParkRead
    BY <1>3, <1>6, ShapeSays DEF ReadsCounts
  <2> DEFINE p == AssignableHere # {}
  <2>2. p \in BOOLEAN
    OBVIOUS
  <2> HIDE DEF p
  <2>3. /\ report' \in ParkCounted /\ report'.of = report.of
        /\ report'.still = report.still
        /\ report'.anyone = report.anyone /\ report'.paused = report.paused
        /\ report'.active = report.active /\ report'.open = report.open
        /\ report'.off = report.off
        /\ report'.present = p /\ report'.staffed = gate.staffed
    BY <1>2, <1>6, <2>1, <2>2 DEF ReadsCounts, ParkCounted, ParkRead, Gate, p
  <2>4. /\ report' \notin ListShown \cup ParkRead \cup ParkDescribed \cup ParkJudged
        /\ report'.at # "ready"
    BY <2>3 DEF ListShown, ParkRead, ParkCounted, ParkDescribed, ParkJudged
  <2>5. report.still => (report.of = "board" => BoardSaw) /\ GateSaw
    BY <2>1 DEF FloorInv, ReadingsInv, Reports
  <2>6. ReadingsInv'
    BY <1>2, <2>3, <2>4, <2>5 DEF ReadingsInv, BoardSaw, GateSaw, p
  <2> QED
    BY <1>1, <2>3, <2>4, <2>6, NoListNow DEF Reports
<1>7. ASSUME Describes PROVE FloorInv'
  <2>1. report \in ParkCounted
    BY <1>3, <1>7, ShapeSays DEF Describes
  <2> DEFINE a == \E d \in FloorDrivers : FreeOfProblems(floor[d])
             w == blockers(report, a)
  <2>2. a \in BOOLEAN /\ (a <=> Anybody)
    BY DEF Anybody
  <2>3. w \subseteq Blocker
    BY DEF blockers, Blocker
  <2> HIDE DEF w, a
  <2>4. /\ report' \in ParkDescribed /\ report'.of = report.of
        /\ report'.still = report.still
        /\ report'.anyone = report.anyone /\ report'.paused = report.paused
        /\ report'.open = report.open /\ report'.assignable = a
        /\ report'.staffed = report.staffed /\ report'.blockers = w
        /\ report'.at = IF report.of = "board" THEN "ready" ELSE "again"
    BY <1>7, <2>1, <2>2, <2>3 DEF Describes, ParkCounted, ParkDescribed, a, w
  <2>5. report' \notin ListShown \cup ParkRead \cup ParkCounted
    BY <2>4 DEF ListShown, ParkRead, ParkCounted, ParkDescribed
  <2>6. report' \notin ParkJudged /\ ~(report'.of = "centre" /\ report'.at = "ready")
    BY <2>1, <2>4 DEF ParkCounted, ParkJudged
  <2>7. report.still => (report.of = "board" => BoardSaw) /\ GateSaw
    BY <2>1 DEF FloorInv, ReadingsInv, Reports
  <2>8. report.still =>
           /\ w = {} => OffersHere
           /\ w # {} /\ OffersHere => ~Anybody
           /\ w = {} /\ gate.requireWaitingDriver => Anybody
    BY <2>1, <2>2, BlockersSay DEF w
  <2>9. ReadingsInv'
    BY <1>2, <2>2, <2>4, <2>5, <2>6, <2>7, <2>8
       DEF ReadingsInv, BoardSaw, GateSaw, Verdict
  <2> QED
    BY <1>1, <2>4, <2>5, <2>9, NoListNow DEF Reports
<1>8. ASSUME NEW other \in {"none", "amber", "red"}, Judges(other) PROVE FloorInv'
  <2>1. report \in ParkDescribed /\ report.of = "centre"
    BY <1>3, <1>8, ShapeSays DEF Judges
  <2> DEFINE health == healthOf(gate.active, report.open,
                          alertsFor(gate.active, report.open, gate.staffed,
                                    report.assignable, other))
  <2>2. /\ health \in {"green", "amber", "red"}
        /\ gate.active /\ report.open /\ (~gate.staffed \/ ~report.assignable) =>
              health = "red"
        /\ gate.active /\ ~report.open => health = "green"
    BY DEF healthOf, alertsFor
  <2> HIDE DEF health
  <2>3. /\ report' \in ParkJudged /\ report'.still = report.still
        /\ report'.blockers = report.blockers /\ report'.health = health
    BY <1>8, <2>1, <2>2 DEF Judges, ParkDescribed, ParkJudged, health
  <2>4. report' \notin ListShown \cup ParkRead \cup ParkCounted \cup ParkDescribed
    <3>1. report' \notin ListShown \cup ParkRead \cup ParkCounted /\ report'.of = "centre"
      BY <2>3 DEF ListShown, ParkRead, ParkCounted, ParkJudged
    <3>2. DOMAIN report' = {"of", "at", "still", "blockers", "health"}
      BY <1>8 DEF Judges
    <3>3. report' \notin ParkDescribed
      BY <3>2 DEF ParkDescribed
    <3> QED
      BY <3>1, <3>3
  <2>5. report.still => /\ report.open <=> gate.open
                        /\ report.assignable <=> Anybody
                        /\ Verdict
    BY <2>1 DEF FloorInv, ReadingsInv, Reports
  <2>6. ReadingsInv'
    <3>1. report'.of = "centre"
      BY <2>3 DEF ParkJudged
    <3> QED
      BY <1>2, <2>2, <2>3, <2>4, <2>5, <3>1 DEF ReadingsInv, Verdict, Judgement
  <2> QED
    BY <1>1, <2>3, <2>4, <2>6, NoListNow DEF Reports
<1> QED
  BY <1>4, <1>5, <1>6, <1>7, <1>8 DEF ReportGoesOn

LEMMA FloorInvStep == FloorInv /\ [FloorNext]_floorVars => FloorInv'
<1> SUFFICES ASSUME FloorInv, [FloorNext]_floorVars PROVE FloorInv'
  OBVIOUS
<1>1. ASSUME Leaves PROVE FloorInv'
  <2>1. /\ UNCHANGED <<floor, gate, pick, met, turns>> /\ report' = Nothing
        /\ Nothing \notin Reports
    BY <1>1 DEF Leaves, Nothing, Reports, ListAsked, ListShown, ReportAsked, ParkRead,
                ParkCounted, ParkDescribed, ParkJudged
  <2>2. ReadingsInv' /\ report' \notin ListShown
    BY <2>1 DEF ReadingsInv, Reports
  <2> QED
    BY <2>1, <2>2, NoListNow
<1>2. ASSUME UNCHANGED floorVars PROVE FloorInv'
  BY <1>2, AssignFrame, ScreenFrame DEF floorVars, FloorInv, FloorShape
<1> QED
  BY <1>1, <1>2, FloorWorld, FloorList, FloorAssign, FloorReports DEF FloorNext

\* What the invariant says of what the screens tell.
LEMMA FloorTells == FloorInv => FloorTypeOK /\ FloorTellsTheTruth
<1> SUFFICES ASSUME FloorInv PROVE FloorTypeOK /\ FloorTellsTheTruth
  OBVIOUS
<1>1. report \in Reports \cup {Nothing} /\ pick \in Tapped
  BY DEF FloorInv, FloorShape
<1>2. FloorTypeOK
  BY <1>1, ShapeSays DEF FloorInv, FloorShape, FloorTypeOK, Tapped, Gate
<1>3. HandedOnFreshFacts
  BY DEF FloorInv, FloorShape, MetInv, HandedOnFreshFacts, Requirement
<1>4. ListKeepsItsWord
  <2>1. ASSUME report.of = "list", report.at = "ready"
        PROVE  \A d \in DOMAIN report.rows :
             /\ report.rows[d].group = "returning_soon" =>
                   report.rows[d].owed
                      \subseteq {"driver_not_approved", "driver_suspended"}
             /\ report.rows[d].declined => ~report.rows[d].assignable
    BY <1>1, <2>1, ShapeSays DEF FloorInv, RowsSound
  <2>2. ASSUME pick.still, pick.at \in {"refused", "handed"},
               report.of = "list", report.at = "ready", report.still,
               pick.driver \in DOMAIN report.rows
        PROVE  LET row == report.rows[pick.driver] IN
          /\ row.assignable /\ pick.at = "refused" =>
                \/ pick.row \in {"zone", "shift"}
                \/ pick.row = "presence" /\ floor[pick.driver].place # "here"
          /\ ~row.assignable /\ pick.at = "handed" => row.declined
    <3> DEFINE e == floor[pick.driver]
               row == report.rows[pick.driver]
    <3>1. /\ e.roster # "off"
          /\ row.assignable <=> /\ Blocking(assignabilityProblems(e)) = {}
                                /\ e.presence \in ASSIGNABLE_PRESENCE_STATES
                                /\ ~row.declined
      BY <1>1, <2>2, ShapeSays DEF FloorInv, ListInv
    <3>2. /\ pick.at = "handed" =>
                /\ Blocking(assignabilityProblems(e)) = {}
                /\ e.presence \in ASSIGNABLE_PRESENCE_STATES
          /\ pick.at = "refused" =>
             \/ pick.row \in {"zone", "shift"}
             \/ pick.row = "roster" /\ e.roster = "off"
             \/ pick.row = "problems" /\ Blocking(assignabilityProblems(e)) # {}
             \/ /\ pick.row = "presence"
                /\ ~(e.place = "here" /\ e.presence \in ASSIGNABLE_PRESENCE_STATES)
      BY <2>2 DEF FloorInv, StillSo
    <3> QED
      BY <3>1, <3>2
  <2> QED
    BY <2>1, <2>2 DEF ListKeepsItsWord
<1>5. ReportsTrue
  <2> SUFFICES ASSUME report.of \in {"board", "centre"}, report.at = "ready", report.still
               PROVE  /\ report.blockers = {} => OffersHere
                      /\ report.blockers # {} /\ OffersHere =>
                            \A d \in AssignableHere : ~FreeOfProblems(floor[d])
                      /\ /\ report.of = "board" /\ report.blockers = {}
                         /\ gate.requireWaitingDriver
                         => report.anyone /\ ~report.paused
                      /\ report.of = "centre" =>
                            /\ (/\ Selectable
                                /\ \/ ~gate.staffed
                                   \/ \A d \in FloorDrivers : ~FreeOfProblems(floor[d]))
                                  => report.health = "red"
                            /\ gate.active /\ ~gate.open => report.health = "green"
    BY DEF ReportsTrue
  <2>1. Verdict
    BY <1>1, ShapeSays DEF FloorInv, ReadingsInv
  <2>2. ~Anybody => \A d \in FloorDrivers : ~FreeOfProblems(floor[d])
    BY DEF Anybody
  <2>3. AssignableHere \subseteq FloorDrivers
    BY DEF AssignableHere
  <2>4. ASSUME report.of = "board", report.blockers = {}, gate.requireWaitingDriver
        PROVE  report.anyone /\ ~report.paused
    <3>1. BoardSaw
      BY <1>1, <2>4, ShapeSays DEF FloorInv, ReadingsInv
    <3>2. Anybody /\ OffersHere
      BY <2>1, <2>4 DEF Verdict
    <3>3. PICK d \in FloorDrivers : FreeOfProblems(floor[d])
      BY <3>2 DEF Anybody
    <3>4. floor[d] \in RosterEntry /\ FALSE \in BOOLEAN
      BY DEF FloorInv, FloorShape
    <3>5. /\ floor[d].roster = "active" /\ assignabilityProblems(floor[d]) = {}
      BY <3>3 DEF FreeOfProblems
    <3>6. Blocking(assignabilityProblems(floor[d])) = {}
      BY <3>5 DEF Blocking
    <3>7. floor[d].presence \in ASSIGNABLE_PRESENCE_STATES
      BY <3>4, <3>5 DEF assignabilityProblems, Problem
    <3>8. Somebody
      BY <3>4, <3>5, <3>6, <3>7, GroupsSay DEF Somebody
    <3>9. ~gate.off
      BY <3>2 DEF OffersHere
    <3> QED
      BY <3>1, <3>8, <3>9 DEF BoardSaw
  <2>5. ASSUME report.of = "centre"
        PROVE  /\ (/\ Selectable
                   /\ \/ ~gate.staffed
                      \/ \A d \in FloorDrivers : ~FreeOfProblems(floor[d]))
                     => report.health = "red"
               /\ gate.active /\ ~gate.open => report.health = "green"
    <3>1. report \in Reports
      BY <1>1, <2>5, ShapeSays
    <3>2. Judgement
      BY <2>5, <3>1 DEF FloorInv, ReadingsInv
    <3>3. Selectable => gate.active /\ gate.open
      BY DEF Selectable
    <3>4. (\A d \in FloorDrivers : ~FreeOfProblems(floor[d])) => ~Anybody
      BY DEF Anybody
    <3> QED
      BY <3>2, <3>3, <3>4 DEF Judgement
  <2> QED
    BY <2>1, <2>2, <2>3, <2>4, <2>5 DEF Verdict
<1> QED
  BY <1>2, <1>3, <1>4, <1>5 DEF FloorTellsTheTruth

LEMMA FloorInvariant == FloorSpec => []FloorInv
BY FloorInvInit, FloorInvStep, PTL DEF FloorSpec

-----------------------------------------------------------------------------
(* The drivers for a ride                                                   *)

Zonings == [Zone -> ZoneRow]
Fix == Zone \cup {"outside", "none"}
Coverage == {"in_zone", "out_of_coverage", "unresolved"}
QueueState == {"OPERATIONS_CONTROL", "ASSIGNED", "FAILED", "COMPLETED",
               "AUTO_HEALTHY", "NEEDS_ATTENTION"}
Severity == {"none", "warning", "urgent"}

\* The shapes of what the dispatcher's screen holds, and of an assignment.
EmptyPanel == [of : {"none"}, at : {"none"}, still : BOOLEAN]
QueueAsked == [of : {"queue"}, at : {"evidence"}, still : BOOLEAN, ride : RideRow]
QueueShown == [of : {"queue"}, at : {"shown"}, still : BOOLEAN,
               state : QueueState, severity : Severity, coverage : Coverage]
PickerAsked == [of : {"picker"}, at : {"presence"}, still : BOOLEAN, ride : RideRow,
                listed : SUBSET PickDrivers]
Missable == {"drivers", "zones"}
PickerLocated == [of : {"picker"}, at : {"eligibility"}, still : BOOLEAN, ride : RideRow,
                  missed : SUBSET Missable,
                  fix : UNION {[D -> Fix] : D \in SUBSET PickDrivers}]
PickerFiltered == [of : {"picker"}, at : {"zones"}, still : BOOLEAN, ride : RideRow,
                   missed : SUBSET Missable,
                   fix : UNION {[D -> Fix] : D \in SUBSET PickDrivers},
                   eligible : SUBSET PickDrivers]
PickerShown == [of : {"picker"}, at : {"shown"}, still : BOOLEAN, coverage : Coverage,
                missed : SUBSET Missable,
                listed : SUBSET PickDrivers, offered : SUBSET PickDrivers]
Panels == EmptyPanel \cup QueueAsked \cup QueueShown \cup PickerAsked
          \cup PickerLocated \cup PickerFiltered \cup PickerShown

NotOrdered == [at : {"idle"}, why : {"none"}, still : BOOLEAN, policy : {"off"}]
Ordered == [at : {"ride", "control", "profile", "cash", "busy", "policy", "fix",
                  "refused", "handed"},
            driver : PickDrivers,
            why : {"none", "RIDE_NOT_ASSIGNABLE", "NOT_CONTROLLER",
                   "DRIVER_NOT_ELIGIBLE", "DRIVER_OUTSIDE_RIDE_ZONE"},
            policy : {"off", "observe", "enforce"}, still : BOOLEAN]

PickerShape ==
    /\ zone \in Zonings /\ cached \in {NoRows} \cup Zonings
    /\ crew \in [PickDrivers -> CrewEntry] /\ ride \in RideRow
    /\ panel \in Panels /\ order \in Ordered \cup NotOrdered
    /\ passed \subseteq Check /\ shifts \in 0..MaxShifts

\* The checks an assignment is past, by where it is.
PastRide == {"control", "profile", "cash", "busy", "policy", "fix", "handed"}
PastControl == PastRide \ {"control"}
PastProfile == PastControl \ {"profile"}
PastCash == PastProfile \ {"cash"}
PastBusy == PastCash \ {"busy"}

\* Since the tap, what the driver would pass now he has passed; and the checks
\* that the assignment went through, he passed.
PassedInv ==
    /\ Watching => /\ ChecksNow(crew, ride, zone, order.driver) \subseteq passed
                   /\ ChecksNow(crew, ride, ZoneRows, order.driver) \subseteq passed
    /\ order.at \in PastRide => "searching" \in passed
    /\ order.at \in PastControl => "controller" \in passed
    /\ order.at \in PastProfile => "profile" \in passed
    /\ order.at \in PastCash => "cash" \in passed
    /\ order.at \in PastBusy => "free" \in passed
    /\ order.at = "fix" /\ order.policy # "enforce" => "zone" \in passed
    /\ order.at = "handed" => "zone" \in passed

\* While nothing changed, what the assignment found is so.
OrderInv ==
    order.at # "idle" /\ order.still =>
       LET e == crew[order.driver]
           policy == forRide(ride.lies, ZoneRows)
           barred == Violates(ride.lies, e.fix, ZoneRows)
       IN
       /\ order.at \in PastRide => ride.status = "searching"
       /\ order.at \in PastControl => ride.control = "mine"
       /\ order.at \in PastProfile => e.profile # "barred"
       /\ order.at \in PastCash => ~(ride.cash /\ e.owes)
       /\ order.at \in PastBusy => ~e.busy
       /\ order.at \in {"fix", "handed"} => order.policy = policy
       /\ order.at = "handed" => ~(order.policy = "enforce" /\ barred)
       /\ order.at = "refused" =>
             \/ order.why \in {"RIDE_NOT_ASSIGNABLE", "NOT_CONTROLLER"}
             \/ order.why = "DRIVER_NOT_ELIGIBLE" /\ ~filter(e, ride.cash)
             \/ order.why = "DRIVER_OUTSIDE_RIDE_ZONE" /\ policy = "enforce" /\ barred

\* While nothing changed, what the screen read is so, or was not read at all.
Approved == {d \in PickDrivers : crew[d].profile = "approved"}
FreshFix(d) == IF crew[d].beat THEN crew[d].fix ELSE "none"
Offerable(d) ==
    /\ filter(crew[d], ride.cash)
    /\ ~(/\ forRide(ride.lies, ZoneRows) = "enforce"
         /\ coverageOf(ride.lies, ZoneRows) # "unresolved"
         /\ Violates(ride.lies, FreshFix(d), ZoneRows))
Placed(fix, missed) ==
    /\ DOMAIN fix = Approved
    /\ \A d \in Approved :
          fix[d] = FreshFix(d) \/ (fix[d] = "none" /\ "drivers" \in missed)
Sieved(eligible, missed) ==
    /\ eligible \subseteq {d \in Approved : filter(crew[d], ride.cash)}
    /\ "drivers" \notin missed => eligible = {d \in Approved : filter(crew[d], ride.cash)}
Listed(listed, offered, missed) ==
    /\ listed = Approved /\ offered \subseteq Approved
    /\ "zones" \notin missed => \A d \in offered : Offerable(d)
    /\ "drivers" \notin missed => \A d \in Approved : Offerable(d) => d \in offered
PanelInv ==
    panel.of # "none" /\ panel.still =>
       /\ panel.at # "shown" => panel.ride = ride
       /\ panel \in QueueShown =>
             /\ panel.state = queueState(ride, ride.control,
                                         assessAttention(ride, ride.rollup))
             /\ panel.coverage = coverageOf(ride.lies, ZoneRows)
       /\ panel \in PickerAsked => panel.listed = Approved
       /\ panel \in PickerLocated \cup PickerFiltered =>
             Placed(panel.fix, panel.missed)
       /\ panel \in PickerFiltered => Sieved(panel.eligible, panel.missed)
       /\ panel \in PickerShown => Listed(panel.listed, panel.offered, panel.missed)

PickerInv == PickerShape /\ PassedInv /\ OrderInv /\ PanelInv

LEMMA PickerInvInit == OpsPickerInit => PickerInv
<1> SUFFICES ASSUME OpsPickerInit PROVE PickerInv
  OBVIOUS
<1>1. zone \in Zonings /\ cached = NoRows /\ ride \in RideRow
  BY DEF OpsPickerInit, Zonings, RideRow
<1>2. crew \in [PickDrivers -> CrewEntry]
  <2>1. [profile |-> "approved", owes |-> FALSE, busy |-> FALSE,
         beat |-> TRUE, fix |-> "own"] \in CrewEntry
    BY DEF CrewEntry, Zone
  <2> QED
    BY <2>1 DEF OpsPickerInit
<1>3. panel = NoScreen /\ order = NoOrder /\ passed = {} /\ shifts \in 0..MaxShifts
  BY PickAssumption DEF OpsPickerInit
<1>4. order.at = "idle" /\ panel.of = "none"
  BY <1>3 DEF NoOrder, NoScreen
<1>5. PickerShape
  BY <1>1, <1>2, <1>3 DEF PickerShape, Panels, EmptyPanel, NoScreen, NoOrder, NotOrdered
<1>6. PassedInv /\ OrderInv /\ PanelInv
  BY <1>4 DEF PassedInv, OrderInv, PanelInv, Watching, PastRide, PastControl,
              PastProfile, PastCash, PastBusy
<1> QED
  BY <1>5, <1>6 DEF PickerInv

-----------------------------------------------------------------------------

\* Whatever the screen holds, and however far the assignment came, they are no
\* longer fresh.
LEMMA PanelOff ==
    ASSUME NEW p \in Panels
    PROVE  /\ [p EXCEPT !.still = FALSE] \in Panels
           /\ ~[p EXCEPT !.still = FALSE].still
<1> DEFINE q == [p EXCEPT !.still = FALSE]
<1>1. CASE p \in EmptyPanel
  BY <1>1 DEF Panels, EmptyPanel
<1>2. CASE p \in QueueAsked
  BY <1>2 DEF Panels, QueueAsked
<1>3. CASE p \in QueueShown
  BY <1>3 DEF Panels, QueueShown
<1>4. CASE p \in PickerAsked
  BY <1>4 DEF Panels, PickerAsked
<1>5. CASE p \in PickerLocated
  BY <1>5 DEF Panels, PickerLocated
<1>6. CASE p \in PickerFiltered
  BY <1>6 DEF Panels, PickerFiltered
<1>7. CASE p \in PickerShown
  BY <1>7 DEF Panels, PickerShown
<1> QED
  BY <1>1, <1>2, <1>3, <1>4, <1>5, <1>6, <1>7 DEF Panels

LEMMA OrderOff ==
    ASSUME NEW o \in Ordered \cup NotOrdered
    PROVE  LET q == [o EXCEPT !.still = FALSE] IN
           /\ q \in Ordered \cup NotOrdered
           /\ q.at = o.at /\ q.policy = o.policy /\ ~q.still
           /\ o \in Ordered => q \in Ordered /\ q.driver = o.driver
<1>1. CASE o \in Ordered
  BY <1>1 DEF Ordered
<1>2. CASE o \in NotOrdered
  <2>1. o \notin Ordered
    BY <1>2 DEF Ordered, NotOrdered
  <2> QED
    BY <1>2, <2>1 DEF NotOrdered
<1> QED
  BY <1>1, <1>2

\* Under way, an assignment has a driver.
LEMMA OrderSays ==
    ASSUME NEW o \in Ordered \cup NotOrdered
    PROVE  o.at = "idle" <=> o \notin Ordered
BY DEF Ordered, NotOrdered

\* When the world changes, nothing that was read is called fresh any more, and
\* what the driver would pass now counts.
LEMMA PickerWorldStep ==
    ASSUME PickerInv, Shifted, zone' \in Zonings, cached' \in {NoRows} \cup Zonings,
           crew' \in [PickDrivers -> CrewEntry], ride' \in RideRow
    PROVE  PickerInv'
<1>1. /\ panel \in Panels /\ order \in Ordered \cup NotOrdered
      /\ panel' = [panel EXCEPT !.still = FALSE]
      /\ order' = [order EXCEPT !.still = FALSE]
      /\ shifts < MaxShifts /\ shifts' = shifts + 1
  BY DEF PickerInv, PickerShape, Shifted
<1>2. /\ panel' \in Panels /\ ~panel'.still
  BY <1>1, PanelOff
<1>3. /\ order' \in Ordered \cup NotOrdered /\ ~order'.still
      /\ order'.at = order.at /\ order'.policy = order.policy
      /\ order \in Ordered => order'.driver = order.driver
  BY <1>1, OrderOff
<1>4. Watching' = Watching /\ (Watching => order \in Ordered)
  BY <1>1, <1>3, OrderSays DEF Watching
<1>5. /\ passed \subseteq passed' /\ passed' \subseteq Check
      /\ Watching' =>
            /\ ChecksNow(crew, ride, zone, order.driver)' \subseteq passed'
            /\ ChecksNow(crew, ride, ZoneRows, order.driver)' \subseteq passed'
  <2> DEFINE views == {zone', ZoneRows'}
             now == UNION {ChecksNow(crew', ride', rows, order.driver) : rows \in views}
  <2>1. passed' = IF ~Watching THEN passed ELSE passed \cup now
    BY DEF Shifted, ZoneRows
  <2>2. \A rows : ChecksNow(crew', ride', rows, order.driver) \subseteq Check
    BY DEF ChecksNow
  <2>3. /\ ChecksNow(crew', ride', zone', order.driver) \subseteq now
        /\ ChecksNow(crew', ride', ZoneRows', order.driver) \subseteq now
    OBVIOUS
  <2>4. now \subseteq Check
    BY <2>2
  <2> HIDE DEF now
  <2>5. passed \subseteq Check
    BY DEF PickerInv, PickerShape
  <2> QED
    BY <1>3, <1>4, <2>1, <2>3, <2>4, <2>5
<1>6. PickerShape'
  <2>1. shifts' \in 0..MaxShifts
    BY <1>1, PickAssumption DEF PickerInv, PickerShape
  <2> QED
    BY <1>2, <1>3, <1>5, <2>1 DEF PickerShape
<1>7. PassedInv'
  BY <1>3, <1>5 DEF PickerInv, PassedInv
<1>8. OrderInv' /\ PanelInv'
  BY <1>2, <1>3 DEF OrderInv, PanelInv
<1> QED
  BY <1>6, <1>7, <1>8 DEF PickerInv

LEMMA PickerWorld == ASSUME PickerInv, WorldShifts PROVE PickerInv'
<1>0. /\ zone \in Zonings /\ cached \in {NoRows} \cup Zonings
      /\ crew \in [PickDrivers -> CrewEntry] /\ ride \in RideRow
  BY DEF PickerInv, PickerShape
<1>1. ASSUME NEW z \in Zone, ZoneControl(z) PROVE PickerInv'
  <2>1. zone[z] \in ZoneRow
    BY <1>0 DEF Zonings
  <2>2. /\ [zone[z] EXCEPT !.active = TRUE] \in ZoneRow
        /\ [active |-> FALSE, enforcement |-> "off"] \in ZoneRow
        /\ \A mode \in {"off", "observe", "enforce"} :
              [zone[z] EXCEPT !.enforcement = mode] \in ZoneRow
    BY <2>1 DEF ZoneRow
  <2>3. PICK row \in ZoneRow : setMode(z, row)
    BY <1>1, <2>2 DEF ZoneControl
  <2>4. zone' \in Zonings /\ UNCHANGED <<cached, crew, ride>> /\ Shifted
    BY <1>0, <2>3 DEF setMode, Zonings
  <2> QED
    BY <1>0, <2>4, PickerWorldStep
<1>2. ASSUME CacheExpires PROVE PickerInv'
  BY <1>0, <1>2, PickerWorldStep DEF CacheExpires
<1>3. ASSUME RideChanges PROVE PickerInv'
  <2>1. /\ \A s \in {"taken", "failed", "ended"} : [ride EXCEPT !.status = s] \in RideRow
        /\ \A c \in {"auto", "mine", "theirs"} : [ride EXCEPT !.control = c] \in RideRow
        /\ \A w \in {"long", "urgent"} : [ride EXCEPT !.waited = w] \in RideRow
        /\ \A r \in {"nobody", "offered"} : [ride EXCEPT !.rollup = r] \in RideRow
    BY <1>0 DEF RideRow
  <2>2. ride' \in RideRow /\ UNCHANGED <<zone, cached, crew>> /\ Shifted
    BY <1>3, <2>1 DEF RideChanges
  <2> QED
    BY <1>0, <2>2, PickerWorldStep
<1>4. ASSUME NEW d \in PickDrivers, NEW e \in CrewEntry,
             crew' = [crew EXCEPT ![d] = e], CrewTurns
      PROVE  PickerInv'
  <2>1. crew' \in [PickDrivers -> CrewEntry]
    BY <1>0, <1>4
  <2>2. UNCHANGED <<zone, cached, ride>> /\ Shifted
    BY <1>4 DEF CrewTurns
  <2> QED
    BY <1>0, <2>1, <2>2, PickerWorldStep
<1>5. ASSUME NEW d \in PickDrivers, NEW at \in Zone \cup {"outside"}, BeatArrives(d, at)
      PROVE  PickerInv'
  <2> DEFINE e == [[crew[d] EXCEPT !.beat = TRUE] EXCEPT !.fix = at]
  <2>1. e \in CrewEntry
    BY <1>0 DEF CrewEntry
  <2>2. crew' = [crew EXCEPT ![d] = e] /\ CrewTurns
    BY <1>0, <1>5 DEF BeatArrives
  <2> HIDE DEF e
  <2> QED
    BY <1>4, <2>1, <2>2
<1>6. ASSUME NEW d \in PickDrivers, BeatLapses(d) PROVE PickerInv'
  <2> DEFINE e == [crew[d] EXCEPT !.beat = FALSE]
  <2>1. e \in CrewEntry
    BY <1>0 DEF CrewEntry
  <2>2. crew' = [crew EXCEPT ![d] = e] /\ CrewTurns
    BY <1>0, <1>6 DEF BeatLapses
  <2> HIDE DEF e
  <2> QED
    BY <1>4, <2>1, <2>2
<1>7. ASSUME NEW d \in PickDrivers, SignsOff(d) PROVE PickerInv'
  <2> DEFINE e == [[crew[d] EXCEPT !.beat = FALSE] EXCEPT !.fix = "none"]
  <2>1. e \in CrewEntry
    BY <1>0 DEF CrewEntry
  <2>2. crew' = [crew EXCEPT ![d] = e] /\ CrewTurns
    BY <1>0, <1>7 DEF SignsOff
  <2> HIDE DEF e
  <2> QED
    BY <1>4, <2>1, <2>2
<1>8. ASSUME NEW d \in PickDrivers, CrewFileTurns(d) PROVE PickerInv'
  <2>1. crew[d] \in CrewEntry
    BY <1>0
  <2>2. /\ \A p \in {"approved", "pending", "barred"} :
              [crew[d] EXCEPT !.profile = p] \in CrewEntry
        /\ [crew[d] EXCEPT !.owes = ~@] \in CrewEntry
        /\ [crew[d] EXCEPT !.busy = ~@] \in CrewEntry
    BY <2>1 DEF CrewEntry
  <2>3. CrewTurns /\ \E e \in CrewEntry : crew' = [crew EXCEPT ![d] = e]
    BY <1>8, <2>2 DEF CrewFileTurns
  <2> QED
    BY <1>4, <2>3
<1> QED
  BY <1>1, <1>2, <1>3, <1>5, <1>6, <1>7, <1>8 DEF WorldShifts

-----------------------------------------------------------------------------

\* Loading the zones, or failing to, does not change what the server goes by.
CacheStep == \/ Loads
             \/ UNCHANGED cached
LEMMA RowsStay ==
    ASSUME PickerInv, CacheStep, zone' = zone
    PROVE  /\ ZoneRows' = ZoneRows /\ ZoneRows \in Zonings
           /\ cached' \in {NoRows} \cup Zonings
BY DEF PickerInv, PickerShape, CacheStep, Loads, ZoneRows

\* A step of the screen leaves the assignment alone, and the other way round.
LEMMA OrderFrame ==
    ASSUME PickerInv, CacheStep, UNCHANGED <<zone, crew, ride, order, passed, shifts>>,
           panel' \in Panels
    PROVE  PickerShape' /\ PassedInv' /\ OrderInv'
<1>1. /\ ZoneRows' = ZoneRows /\ cached' \in {NoRows} \cup Zonings
  BY RowsStay
<1>2. PickerShape'
  BY <1>1 DEF PickerInv, PickerShape
<1>3. PassedInv'
  BY <1>1 DEF PickerInv, PassedInv, Watching
<1>4. OrderInv'
  BY <1>1 DEF PickerInv, OrderInv
<1> QED
  BY <1>2, <1>3, <1>4

LEMMA PanelFrame ==
    ASSUME PickerInv, CacheStep, UNCHANGED <<zone, crew, ride, panel>>
    PROVE  PanelInv'
<1>1. ZoneRows' = ZoneRows
  BY RowsStay
<1>2. /\ Approved' = Approved /\ \A d : FreshFix(d)' = FreshFix(d)
      /\ \A d : Offerable(d)' = Offerable(d)
  BY <1>1 DEF Approved, FreshFix, Offerable
<1> QED
  BY <1>1, <1>2 DEF PickerInv, PanelInv, Placed, Sieved, Listed

\* Which shape a screen has, by what it is of and how far it came.
LEMMA PanelSays ==
    ASSUME NEW p \in Panels
    PROVE  /\ p.of \in {"none", "queue", "picker"}
           /\ p.of = "queue" /\ p.at = "evidence" <=> p \in QueueAsked
           /\ p.of = "queue" /\ p.at = "shown" <=> p \in QueueShown
           /\ p.of = "picker" /\ p.at = "presence" <=> p \in PickerAsked
           /\ p.of = "picker" /\ p.at = "eligibility" <=> p \in PickerLocated
           /\ p.of = "picker" /\ p.at = "zones" <=> p \in PickerFiltered
           /\ p.of = "picker" /\ p.at = "shown" <=> p \in PickerShown
BY DEF Panels, EmptyPanel, QueueAsked, QueueShown, PickerAsked, PickerLocated,
       PickerFiltered, PickerShown

-----------------------------------------------------------------------------
(* The queue and the picker *)

LEMMA CoverageSays ==
    ASSUME NEW rd \in RideRow, NEW rows \in Zonings
    PROVE  /\ coverageOf(rd.lies, rows) \in Coverage
           /\ forRide(rd.lies, rows) \in {"off", "observe", "enforce"}
           /\ forRide(rd.lies, rows) = "enforce" =>
                 coverageOf(rd.lies, rows) # "unresolved"
<1>1. coverageOf(rd.lies, rows) \in Coverage
  BY DEF coverageOf, Coverage
<1>2. rows["own"].enforcement \in {"off", "observe", "enforce"}
  BY DEF Zonings, Zone, ZoneRow
<1>3. globalPosture(rows) \in {"off", "observe", "enforce"}
  BY DEF globalPosture, strongest
<1> QED
  BY <1>1, <1>2, <1>3 DEF forRide, Coverage

LEMMA StateSays ==
    ASSUME NEW row \in RideRow, NEW rollup \in {"none", "nobody", "offered"},
           NEW control \in {"auto", "mine", "theirs"}
    PROVE  LET severity == assessAttention(row, rollup)
               state == queueState(row, control, severity)
           IN /\ severity \in Severity /\ state \in QueueState
              /\ state = "NEEDS_ATTENTION" <=>
                    /\ row.status = "searching" /\ control = "auto"
                    /\ row.waited # "no" \/ rollup = "nobody"
              /\ state = "AUTO_HEALTHY" => row.status = "searching"
              /\ state = "OPERATIONS_CONTROL" <=> control # "auto"
<1> DEFINE severity == assessAttention(row, rollup)
<1>1. /\ severity \in Severity
      /\ row.status = "searching" =>
            (severity # "none" <=> row.waited # "no" \/ rollup = "nobody")
  BY DEF assessAttention, Severity, RideRow
<1> HIDE DEF severity
<1>2. LET state == queueState(row, control, severity) IN
      /\ state \in QueueState
      /\ state = "NEEDS_ATTENTION" <=>
            row.status = "searching" /\ control = "auto" /\ severity # "none"
      /\ state = "AUTO_HEALTHY" => row.status = "searching"
      /\ state = "OPERATIONS_CONTROL" <=> control # "auto"
  <2> DEFINE state == queueState(row, control, severity)
  <2>1. CASE control # "auto"
    <3>1. state = "OPERATIONS_CONTROL"
      BY <2>1 DEF queueState, RideRow
    <3> QED
      BY <2>1, <3>1 DEF QueueState
  <2>2. CASE control = "auto" /\ row.status # "searching"
    <3>1. state \in {"ASSIGNED", "FAILED", "COMPLETED"}
      BY <2>2 DEF queueState, RideRow
    <3> QED
      BY <2>2, <3>1 DEF QueueState
  <2>3. CASE control = "auto" /\ row.status = "searching"
    <3>1. state = IF severity = "none" THEN "AUTO_HEALTHY" ELSE "NEEDS_ATTENTION"
      BY <2>3 DEF queueState
    <3> QED
      BY <2>3, <3>1 DEF QueueState
  <2> QED
    BY <2>1, <2>2, <2>3
<1> QED
  BY <1>1, <1>2 DEF severity

LEMMA PickerScreen == ASSUME PickerInv, ScreenGoesOn PROVE PickerInv'
<1>1. UNCHANGED <<zone, crew, ride, order, passed, shifts>> /\ CacheStep
  BY DEF ScreenGoesOn, QueueReads, liveQueue, PickerReads, PickerLocates, PickerFilters,
         PickerShows, ScreenCloses, CacheStep
<1>2. /\ ZoneRows' = ZoneRows /\ ZoneRows \in Zonings /\ ride \in RideRow
      /\ crew \in [PickDrivers -> CrewEntry] /\ panel \in Panels
  BY <1>1, RowsStay DEF PickerInv, PickerShape
<1>3. /\ Approved' = Approved /\ \A d : FreshFix(d)' = FreshFix(d)
      /\ \A d : Offerable(d)' = Offerable(d)
      /\ Approved \subseteq PickDrivers
  BY <1>1, <1>2 DEF Approved, FreshFix, Offerable
<1>4. SUFFICES panel' \in Panels /\ PanelInv'
  BY <1>1, OrderFrame DEF PickerInv
<1>5. CASE QueueReads
  <2>1. /\ panel' \in QueueAsked /\ panel'.ride = ride
    BY <1>2, <1>5 DEF QueueReads, QueueAsked
  <2>2. panel' \in Panels
    BY <2>1 DEF Panels
  <2>3. panel' \notin QueueShown \cup PickerAsked \cup PickerLocated
                      \cup PickerFiltered \cup PickerShown
    BY <2>1 DEF QueueAsked, QueueShown, PickerAsked, PickerLocated, PickerFiltered,
                PickerShown
  <2> QED
    BY <1>1, <2>1, <2>2, <2>3 DEF PanelInv
<1>6. ASSUME NEW failed \in BOOLEAN, liveQueue(failed) PROVE panel' \in Panels /\ PanelInv'
  <2> DEFINE severity == assessAttention(panel.ride, ride.rollup)
             state == queueState(panel.ride, ride.control, severity)
             rows == IF failed THEN NoZones ELSE ZoneRows
             coverage == coverageOf(panel.ride.lies, rows)
  <2>1. panel \in QueueAsked /\ panel.ride \in RideRow /\ panel.still \in BOOLEAN
    BY <1>2, <1>6, PanelSays DEF liveQueue, QueueAsked
  <2>2. rows \in Zonings
    <3>1. NoZones \in Zonings
      BY DEF NoZones, Zonings, ZoneRow
    <3> QED
      BY <1>2, <3>1
  <2>3. /\ ride.rollup \in {"none", "nobody", "offered"}
        /\ ride.control \in {"auto", "mine", "theirs"}
    BY <1>2 DEF RideRow
  <2>4. severity \in Severity /\ state \in QueueState /\ coverage \in Coverage
    <3> HIDE DEF rows
    <3> QED
      BY <2>1, <2>2, <2>3, StateSays, CoverageSays
  <2> DEFINE s == panel.still /\ ~failed
  <2>5. s \in BOOLEAN /\ (s => panel.still /\ ~failed)
    OBVIOUS
  <2>6. panel' = [of |-> "queue", at |-> "shown", still |-> s, state |-> state,
                  severity |-> severity, coverage |-> coverage]
    BY <1>6 DEF liveQueue
  <2>7. s => state = queueState(ride, ride.control, assessAttention(ride, ride.rollup))
             /\ coverage = coverageOf(ride.lies, ZoneRows)
    <3>1. s => panel.ride = ride
      BY <2>1, <2>5 DEF PickerInv, PanelInv, QueueAsked
    <3> QED
      BY <2>5, <3>1
  <2> HIDE DEF s, severity, state, rows, coverage
  <2>8. /\ panel' \in QueueShown /\ panel'.still = s
        /\ panel'.state = state /\ panel'.coverage = coverage /\ panel'.at = "shown"
    BY <2>4, <2>5, <2>6 DEF QueueShown
  <2>9. panel' \notin PickerAsked \cup PickerLocated \cup PickerFiltered \cup PickerShown
    BY <2>8 DEF QueueShown, PickerAsked, PickerLocated, PickerFiltered, PickerShown
  <2>10. PanelInv'
    BY <1>1, <1>2, <2>7, <2>8, <2>9 DEF PanelInv
  <2> QED
    BY <2>8, <2>10 DEF Panels
<1>7. CASE PickerReads
  <2>1. /\ panel' \in PickerAsked /\ panel'.ride = ride /\ panel'.listed = Approved
    BY <1>2, <1>3, <1>7 DEF PickerReads, PickerAsked, Approved
  <2>2. panel' \notin QueueShown \cup PickerLocated \cup PickerFiltered \cup PickerShown
    BY <2>1 DEF PickerAsked, QueueShown, PickerLocated, PickerFiltered, PickerShown
  <2>3. PanelInv'
    BY <1>1, <1>3, <2>1, <2>2 DEF PanelInv
  <2> QED
    BY <2>1, <2>3 DEF Panels
<1>8. ASSUME NEW failed \in BOOLEAN, PickerLocates(failed)
      PROVE  panel' \in Panels /\ PanelInv'
  <2> DEFINE fix == [d \in panel.listed |->
                        IF crew[d].beat /\ ~failed THEN crew[d].fix ELSE "none"]
             missed == Missed("drivers", failed)
  <2>1. panel \in PickerAsked /\ panel.ride \in RideRow /\ panel.still \in BOOLEAN
        /\ panel.listed \subseteq PickDrivers
    BY <1>2, <1>8, PanelSays DEF PickerLocates, PickerAsked
  <2>2. \A d \in PickDrivers : crew[d].fix \in Fix /\ "none" \in Fix
    BY <1>2 DEF CrewEntry, Fix
  <2>3. fix \in UNION {[D -> Fix] : D \in SUBSET PickDrivers}
    <3>1. fix \in [panel.listed -> Fix]
      BY <2>1, <2>2
    <3> QED
      BY <2>1, <3>1
  <2>4. panel' = [of |-> "picker", at |-> "eligibility", still |-> panel.still,
                  ride |-> panel.ride, missed |-> missed, fix |-> fix]
    BY <1>8 DEF PickerLocates
  <2>5. /\ missed \in SUBSET Missable
        /\ DOMAIN fix = panel.listed
        /\ \A d \in panel.listed :
              fix[d] = FreshFix(d) \/ (fix[d] = "none" /\ "drivers" \in missed)
    BY DEF Missed, Missable, FreshFix
  <2> HIDE DEF fix, missed
  <2>6. /\ panel' \in PickerLocated /\ panel'.still = panel.still
        /\ panel'.ride = panel.ride /\ panel'.fix = fix /\ panel'.missed = missed
    BY <2>1, <2>3, <2>4, <2>5 DEF PickerLocated
  <2>7. panel' \notin QueueShown \cup PickerAsked \cup PickerFiltered \cup PickerShown
    BY <2>6 DEF PickerAsked, QueueShown, PickerLocated, PickerFiltered, PickerShown
  <2>8. panel.still => panel.ride = ride /\ panel.listed = Approved
    BY <2>1 DEF PickerInv, PanelInv, PickerAsked
  <2>9. panel.still => Placed(fix, missed)
    BY <2>5, <2>8 DEF Placed
  <2>10. PanelInv'
    BY <1>1, <1>3, <2>6, <2>7, <2>8, <2>9 DEF PanelInv, Placed
  <2> QED
    BY <2>6, <2>10 DEF Panels
<1>9. ASSUME NEW failed \in BOOLEAN, PickerFilters(failed)
      PROVE  panel' \in Panels /\ PanelInv'
  <2> DEFINE eligible == {d \in DOMAIN panel.fix :
                             ~failed /\ filter(crew[d], panel.ride.cash)}
             missed == panel.missed \cup Missed("drivers", failed)
  <2>1. panel \in PickerLocated
    BY <1>2, <1>9, PanelSays DEF PickerFilters
  <2>2. /\ panel.ride \in RideRow /\ panel.still \in BOOLEAN
        /\ panel.fix \in UNION {[D -> Fix] : D \in SUBSET PickDrivers}
        /\ DOMAIN panel.fix \subseteq PickDrivers /\ panel.missed \in SUBSET Missable
    <3>1. /\ panel.ride \in RideRow /\ panel.still \in BOOLEAN
          /\ panel.fix \in UNION {[D -> Fix] : D \in SUBSET PickDrivers}
          /\ panel.missed \in SUBSET Missable
      BY <2>1 DEF PickerLocated
    <3> QED
      BY <3>1
  <2>3. eligible \subseteq PickDrivers /\ missed \in SUBSET Missable
    BY <2>2 DEF Missed, Missable
  <2>4. panel' = [of |-> "picker", at |-> "zones", still |-> panel.still,
                  ride |-> panel.ride, fix |-> panel.fix, missed |-> missed,
                  eligible |-> eligible]
    BY <1>9 DEF PickerFilters
  <2>5. panel.still => panel.ride = ride /\ Placed(panel.fix, panel.missed)
    BY <2>1 DEF PickerInv, PanelInv, PickerLocated
  <2>6. panel.still => Placed(panel.fix, missed) /\ Sieved(eligible, missed)
    BY <2>5 DEF Placed, Sieved, Missed
  <2> HIDE DEF eligible, missed
  <2>7. /\ panel' \in PickerFiltered /\ panel'.still = panel.still
        /\ panel'.ride = panel.ride /\ panel'.fix = panel.fix
        /\ panel'.missed = missed /\ panel'.eligible = eligible
    BY <2>2, <2>3, <2>4 DEF PickerFiltered
  <2>8. panel' \notin QueueShown \cup PickerAsked \cup PickerLocated \cup PickerShown
    BY <2>7 DEF PickerAsked, QueueShown, PickerLocated, PickerFiltered, PickerShown
  <2>9. PanelInv'
    BY <1>1, <1>3, <2>5, <2>6, <2>7, <2>8 DEF PanelInv, Placed, Sieved
  <2> QED
    BY <2>7, <2>9 DEF Panels
<1>10. ASSUME NEW unzoned \in BOOLEAN, NEW inert \in BOOLEAN, PickerShows(unzoned, inert)
       PROVE  panel' \in Panels /\ PanelInv'
  <2> DEFINE fix == IF unzoned THEN [d \in DOMAIN panel.fix |-> "none"] ELSE panel.fix
             offered == IF inert THEN panel.eligible
                        ELSE OffersThem(panel.ride.lies, fix, panel.eligible, ZoneRows)
             coverage == IF inert THEN "unresolved"
                         ELSE coverageOf(panel.ride.lies, ZoneRows)
             listed == DOMAIN panel.fix
             missed == panel.missed \cup Missed("drivers", unzoned)
                                    \cup Missed("zones", inert)
  <2>1. panel \in PickerFiltered
    BY <1>2, <1>10, PanelSays DEF PickerShows
  <2>2. /\ panel.ride \in RideRow /\ panel.still \in BOOLEAN
        /\ listed \subseteq PickDrivers /\ panel.eligible \subseteq PickDrivers
        /\ panel.missed \in SUBSET Missable
    <3>1. /\ panel.ride \in RideRow /\ panel.still \in BOOLEAN
          /\ panel.fix \in UNION {[D -> Fix] : D \in SUBSET PickDrivers}
          /\ panel.eligible \subseteq PickDrivers /\ panel.missed \in SUBSET Missable
      BY <2>1 DEF PickerFiltered
    <3> QED
      BY <3>1
  <2>3. /\ offered \subseteq PickDrivers /\ coverage \in Coverage
        /\ missed \in SUBSET Missable
    <3>1. coverageOf(panel.ride.lies, ZoneRows) \in Coverage
      BY <1>2, <2>2, CoverageSays
    <3> QED
      BY <2>2, <3>1 DEF OffersThem, Coverage, Missed, Missable
  <2>4. panel' = [of |-> "picker", at |-> "shown", still |-> panel.still,
                  missed |-> missed, coverage |-> coverage, listed |-> listed,
                  offered |-> offered]
    BY <1>10 DEF PickerShows
  <2>5. panel.still => Listed(listed, offered, missed)
    <3> SUFFICES ASSUME panel.still PROVE Listed(listed, offered, missed)
      OBVIOUS
    <3>1. /\ panel.ride = ride /\ Placed(panel.fix, panel.missed)
          /\ Sieved(panel.eligible, panel.missed)
      BY <2>1 DEF PickerInv, PanelInv, PickerFiltered
    <3>2. listed = Approved
      BY <3>1 DEF Placed
    <3>3. offered \subseteq panel.eligible
      BY DEF OffersThem
    <3>4. panel.eligible \subseteq {d \in Approved : filter(crew[d], ride.cash)}
      BY <3>1 DEF Sieved
    <3>5. ASSUME NEW d \in Approved PROVE fix[d] = FreshFix(d) \/ fix[d] = "none"
      BY <3>1 DEF Placed
    <3>6. ASSUME "zones" \notin missed, NEW d \in offered PROVE Offerable(d)
      <4>1. ~inert
        BY <3>6 DEF Missed
      <4>2. /\ d \in Approved /\ filter(crew[d], ride.cash)
            /\ ~(/\ forRide(ride.lies, ZoneRows) = "enforce"
                 /\ coverageOf(ride.lies, ZoneRows) # "unresolved"
                 /\ Violates(ride.lies, fix[d], ZoneRows))
        BY <3>1, <3>3, <3>4, <3>6, <4>1 DEF OffersThem
      <4>3. /\ coverageOf(ride.lies, ZoneRows) \in Coverage
            /\ coverageOf(ride.lies, ZoneRows) # "unresolved" =>
                  Violates(ride.lies, "none", ZoneRows)
        BY <1>2, CoverageSays DEF Violates, Coverage, ZoneAt, operational, Zone
      <4>4. fix[d] = FreshFix(d) \/ fix[d] = "none"
        BY <3>5, <4>2
      <4> HIDE DEF fix
      <4> QED
        BY <4>2, <4>3, <4>4 DEF Offerable
    <3>7. ASSUME "drivers" \notin missed, NEW d \in Approved, Offerable(d)
          PROVE  d \in offered
      <4>1. ~unzoned /\ "drivers" \notin panel.missed
        BY <3>7 DEF Missed, Missable
      <4>2. ~inert /\ fix = panel.fix
        BY <1>10, <4>1 DEF PickerShows
      <4>3. panel.fix[d] = FreshFix(d) /\ d \in panel.eligible
        BY <3>1, <3>7, <4>1 DEF Placed, Sieved, Offerable
      <4> QED
        BY <3>1, <3>7, <4>2, <4>3 DEF OffersThem, Offerable
    <3> HIDE DEF offered, listed, missed
    <3> QED
      BY <3>2, <3>3, <3>4, <3>6, <3>7 DEF Listed
  <2> HIDE DEF offered, coverage, listed, missed
  <2>6. /\ panel' \in PickerShown /\ panel'.still = panel.still /\ panel'.at = "shown"
        /\ panel'.listed = listed /\ panel'.offered = offered /\ panel'.missed = missed
    BY <2>2, <2>3, <2>4 DEF PickerShown
  <2>7. panel' \notin QueueShown \cup PickerAsked \cup PickerLocated \cup PickerFiltered
    BY <2>6 DEF PickerAsked, QueueShown, PickerLocated, PickerFiltered, PickerShown
  <2>8. PanelInv'
    BY <1>3, <2>5, <2>6, <2>7 DEF PanelInv, Listed
  <2> QED
    BY <2>6, <2>8 DEF Panels
<1>11. CASE ScreenCloses
  <2>1. panel' = NoScreen /\ panel' \in EmptyPanel /\ panel'.of = "none"
    BY <1>11 DEF ScreenCloses, NoScreen, EmptyPanel
  <2> QED
    BY <2>1 DEF Panels, PanelInv
<1> QED
  BY <1>5, <1>6, <1>7, <1>8, <1>9, <1>10, <1>11 DEF ScreenGoesOn

-----------------------------------------------------------------------------
(* The assignment *)

\* What an assignment that is under way would pass now, it passed.
LEMMA PassedNow ==
    ASSUME PickerInv, Watching, NEW rows \in {zone, ZoneRows}
    PROVE  LET e == crew[order.driver] IN
           /\ ride.status = "searching" => "searching" \in passed
           /\ ride.control = "mine" => "controller" \in passed
           /\ e.profile # "barred" => "profile" \in passed
           /\ ~(ride.cash /\ e.owes) => "cash" \in passed
           /\ ~e.busy => "free" \in passed
           /\ forRide(ride.lies, rows) # "enforce" => "zone" \in passed
           /\ ~Violates(ride.lies, e.fix, rows) => "zone" \in passed
<1>1. ChecksNow(crew, ride, rows, order.driver) \subseteq passed
  BY DEF PickerInv, PassedInv
<1> QED
  BY <1>1 DEF ChecksNow, Check

LEMMA PickerOrder == ASSUME PickerInv, OrderGoesOn PROVE PickerInv'
<1>1. UNCHANGED <<zone, crew, ride, panel, shifts>> /\ CacheStep
  <2>1. ASSUME NEW x \in PickDrivers, AsksFor(x)
        PROVE  UNCHANGED <<zone, cached, crew, ride, panel, shifts>>
    BY <2>1 DEF AsksFor
  <2>2. CASE ChecksRide \/ ChecksControl \/ FiltersProfile \/ FiltersCash \/ FiltersBusy
    BY <2>2 DEF ChecksRide, ChecksControl, FiltersProfile, FiltersCash, FiltersBusy,
                OnlyOrder, CacheStep
  <2>3. ASSUME NEW failed \in BOOLEAN, AsksPolicy(failed) \/ Guards(failed)
        PROVE  UNCHANGED <<zone, crew, ride, panel, shifts>> /\ (UNCHANGED cached \/ Loads)
    <3>1. CASE AsksPolicy(failed)
      BY <3>1 DEF AsksPolicy
    <3>2. CASE Guards(failed)
      BY <3>2 DEF Guards
    <3> QED
      BY <2>3, <3>1, <3>2
  <2> QED
    BY <2>1, <2>2, <2>3 DEF OrderGoesOn, CacheStep
<1>2. /\ ZoneRows' = ZoneRows /\ ZoneRows \in Zonings /\ ride \in RideRow
      /\ cached' \in {NoRows} \cup Zonings
      /\ crew \in [PickDrivers -> CrewEntry] /\ panel \in Panels
      /\ order \in Ordered \cup NotOrdered /\ passed \subseteq Check
  BY <1>1, RowsStay DEF PickerInv, PickerShape
<1>3. SUFFICES order' \in Ordered /\ passed' \subseteq Check /\ PassedInv' /\ OrderInv'
  BY <1>1, <1>2, PanelFrame DEF PickerInv, PickerShape
<1> DEFINE d == order.driver
           e == crew[d]
           Past == order.at \notin {"idle", "refused", "handed"}
\* One check is passed ...
<1>4. ASSUME NEW to \in {"control", "profile", "cash", "busy", "policy"}, Goes(to),
             passed' = passed, Watching,
             to = "control" => /\ order.at = "ride" /\ ride.status = "searching"
                               /\ "searching" \in passed,
             to = "profile" => /\ order.at = "control" /\ ride.control = "mine"
                               /\ "controller" \in passed,
             to = "cash" => /\ order.at = "profile" /\ e.profile # "barred"
                            /\ "profile" \in passed,
             to = "busy" => /\ order.at = "cash" /\ ~(ride.cash /\ e.owes)
                            /\ "cash" \in passed,
             to = "policy" => order.at = "busy" /\ ~e.busy /\ "free" \in passed
      PROVE  order' \in Ordered /\ passed' \subseteq Check /\ PassedInv' /\ OrderInv'
  <2>1. order \in Ordered
    BY <1>2, <1>4, OrderSays DEF Watching
  <2>2. /\ order' \in Ordered /\ order'.at = to /\ order'.driver = d
        /\ order'.still = order.still /\ order'.policy = order.policy
    BY <1>4, <2>1 DEF Goes, Ordered
  <2>3. Watching'
    BY <2>2 DEF Watching
  <2>4. PassedInv'
    BY <1>1, <1>2, <1>4, <2>2
       DEF PickerInv, PassedInv, Watching, PastRide, PastControl, PastProfile, PastCash,
           PastBusy
  <2>5. OrderInv'
    BY <1>1, <1>2, <1>4, <2>2
       DEF PickerInv, OrderInv, Watching, PastRide, PastControl, PastProfile, PastCash,
           PastBusy
  <2> QED
    BY <1>2, <1>4, <2>2, <2>4, <2>5
\* ... or not.
<1>5. ASSUME NEW why \in {"RIDE_NOT_ASSIGNABLE", "NOT_CONTROLLER", "DRIVER_NOT_ELIGIBLE"},
             Fails(why), passed' = passed, Watching,
             why = "DRIVER_NOT_ELIGIBLE" => ~filter(e, ride.cash)
      PROVE  order' \in Ordered /\ passed' \subseteq Check /\ PassedInv' /\ OrderInv'
  <2>1. order \in Ordered
    BY <1>2, <1>5, OrderSays DEF Watching
  <2>2. /\ order' \in Ordered /\ order'.at = "refused" /\ order'.driver = d
        /\ order'.why = why
    BY <1>5, <2>1 DEF Fails, Ordered
  <2>3. PassedInv'
    BY <2>2 DEF PassedInv, Watching, PastRide, PastControl, PastProfile, PastCash, PastBusy
  <2>4. OrderInv'
    BY <1>1, <1>5, <2>2
       DEF OrderInv, PastRide, PastControl, PastProfile, PastCash, PastBusy
  <2> QED
    BY <1>2, <1>5, <2>2, <2>3, <2>4
<1>6. ASSUME NEW x \in PickDrivers, AsksFor(x)
      PROVE  order' \in Ordered /\ passed' \subseteq Check /\ PassedInv' /\ OrderInv'
  <2>1. panel.still \in BOOLEAN
    BY <1>2 DEF Panels, EmptyPanel, QueueAsked, QueueShown, PickerAsked, PickerLocated,
                PickerFiltered, PickerShown
  <2>2. /\ order' \in Ordered /\ order'.at = "ride" /\ order'.driver = x
    BY <1>6, <2>1 DEF AsksFor, Ordered
  <2>3. passed' = ChecksNow(crew, ride, zone, x) \cup ChecksNow(crew, ride, ZoneRows, x)
    BY <1>6 DEF AsksFor
  <2>4. passed' \subseteq Check
    BY <2>3 DEF ChecksNow
  <2>5. PassedInv'
    BY <1>1, <1>2, <2>2, <2>3
       DEF PassedInv, PastRide, PastControl, PastProfile, PastCash, PastBusy
  <2>6. OrderInv'
    BY <2>2 DEF OrderInv, PastRide, PastControl, PastProfile, PastCash, PastBusy
  <2> QED
    BY <2>2, <2>4, <2>5, <2>6
<1>7. CASE ChecksRide
  <2>1. Watching /\ passed' = passed /\ order.at = "ride"
    BY <1>7 DEF ChecksRide, OnlyOrder, Watching
  <2>2. ride.status = "searching" => "searching" \in passed
    BY <2>1, PassedNow
  <2> QED
    BY <1>4, <1>5, <1>7, <2>1, <2>2 DEF ChecksRide
<1>8. CASE ChecksControl
  <2>1. Watching /\ passed' = passed /\ order.at = "control"
    BY <1>8 DEF ChecksControl, OnlyOrder, Watching
  <2>2. ride.control = "mine" => "controller" \in passed
    BY <2>1, PassedNow
  <2> QED
    BY <1>4, <1>5, <1>8, <2>1, <2>2 DEF ChecksControl
<1>9. CASE FiltersProfile
  <2>1. Watching /\ passed' = passed /\ order.at = "profile"
    BY <1>9 DEF FiltersProfile, OnlyOrder, Watching
  <2>2. e.profile # "barred" => "profile" \in passed
    BY <2>1, PassedNow
  <2>3. e.profile = "barred" => ~filter(e, ride.cash)
    BY DEF filter
  <2> QED
    BY <1>4, <1>5, <1>9, <2>1, <2>2, <2>3 DEF FiltersProfile
<1>10. CASE FiltersCash
  <2>1. Watching /\ passed' = passed /\ order.at = "cash"
    BY <1>10 DEF FiltersCash, OnlyOrder, Watching
  <2>2. ~(ride.cash /\ e.owes) => "cash" \in passed
    BY <2>1, PassedNow
  <2>3. ride.cash /\ e.owes => ~filter(e, ride.cash)
    BY DEF filter
  <2> QED
    BY <1>4, <1>5, <1>10, <2>1, <2>2, <2>3 DEF FiltersCash
<1>11. CASE FiltersBusy
  <2>1. Watching /\ passed' = passed /\ order.at = "busy"
    BY <1>11 DEF FiltersBusy, OnlyOrder, Watching
  <2>2. ~e.busy => "free" \in passed
    BY <2>1, PassedNow
  <2>3. e.busy => ~filter(e, ride.cash)
    BY DEF filter
  <2> QED
    BY <1>4, <1>5, <1>11, <2>1, <2>2, <2>3 DEF FiltersBusy
<1>12. ASSUME NEW failed \in BOOLEAN, AsksPolicy(failed)
       PROVE  order' \in Ordered /\ passed' \subseteq Check /\ PassedInv' /\ OrderInv'
  <2> DEFINE policy == IF failed THEN "off" ELSE forRide(ride.lies, ZoneRows)
             to == IF policy = "off" THEN "handed" ELSE "fix"
  <2>1. /\ order.at = "policy" /\ Watching /\ order \in Ordered
        /\ order' = [order EXCEPT !.at = to, !.policy = policy, !.still = @ /\ ~failed]
        /\ passed' = IF failed THEN passed \cup {"zone"} ELSE passed
    BY <1>2, <1>12, OrderSays DEF AsksPolicy, Watching
  <2>2. policy \in {"off", "observe", "enforce"}
    BY <1>2, CoverageSays
  <2>3. to \in {"handed", "fix"} /\ (to = "handed" <=> policy = "off")
    OBVIOUS
  <2>4. ~failed => policy = forRide(ride.lies, ZoneRows)
    OBVIOUS
  <2> HIDE DEF policy, to
  <2>5. /\ order' \in Ordered /\ order'.at = to /\ order'.driver = d
        /\ order'.policy = policy
        /\ order'.still => order.still /\ ~failed
    BY <2>1, <2>2, <2>3 DEF Ordered
  <2>6. passed \subseteq passed' /\ passed' \subseteq Check
    BY <1>2, <2>1 DEF Check
  <2>7. policy # "enforce" => "zone" \in passed'
    BY <2>1, <2>4, PassedNow
  <2>8. PassedInv'
    <3>1. /\ "searching" \in passed /\ "controller" \in passed /\ "profile" \in passed
          /\ "cash" \in passed /\ "free" \in passed
      BY <2>1 DEF PickerInv, PassedInv, PastRide, PastControl, PastProfile, PastCash,
                  PastBusy
    <3>2. /\ ChecksNow(crew, ride, zone, d) \subseteq passed
          /\ ChecksNow(crew, ride, ZoneRows, d) \subseteq passed
      BY <2>1 DEF PickerInv, PassedInv
    <3>3. order'.at = "handed" => policy # "enforce"
      BY <2>3, <2>5
    <3> QED
      BY <1>1, <1>2, <2>5, <2>6, <2>7, <3>1, <3>2, <3>3 DEF PassedInv
  <2>9. OrderInv'
    <3> SUFFICES ASSUME order'.still PROVE OrderInv'
      BY DEF OrderInv
    <3>1. order.still /\ ~failed
      BY <2>5
    <3>2. /\ ride.status = "searching" /\ ride.control = "mine" /\ e.profile # "barred"
          /\ ~(ride.cash /\ e.owes) /\ ~e.busy
      BY <2>1, <3>1 DEF PickerInv, OrderInv, PastRide, PastControl, PastProfile, PastCash,
                        PastBusy
    <3>3. order'.at # "refused" /\ (order'.at = "handed" => policy # "enforce")
      BY <2>3, <2>5
    <3> QED
      BY <1>1, <1>2, <2>4, <2>5, <3>1, <3>2, <3>3 DEF OrderInv
  <2> QED
    BY <2>5, <2>6, <2>8, <2>9
<1>13. ASSUME NEW failed \in BOOLEAN, Guards(failed)
       PROVE  order' \in Ordered /\ passed' \subseteq Check /\ PassedInv' /\ OrderInv'
  <2> DEFINE violated == failed \/ Violates(ride.lies, e.fix, ZoneRows)
             bars == violated /\ order.policy = "enforce"
             to == IF bars THEN "refused" ELSE "handed"
             why == IF bars THEN "DRIVER_OUTSIDE_RIDE_ZONE" ELSE order.why
  <2>1. /\ order.at = "fix" /\ Watching /\ order \in Ordered /\ passed' = passed
        /\ order' = [order EXCEPT !.at = to, !.why = why, !.still = @ /\ ~failed]
    BY <1>2, <1>13, OrderSays DEF Guards, Watching
  <2>2. /\ to \in {"refused", "handed"} /\ (to = "refused" <=> bars)
        /\ why \in {order.why, "DRIVER_OUTSIDE_RIDE_ZONE"}
        /\ bars => why = "DRIVER_OUTSIDE_RIDE_ZONE"
    OBVIOUS
  <2>3. bars => order.policy = "enforce"
    OBVIOUS
  <2>4. /\ ~bars /\ order.policy = "enforce" => ~Violates(ride.lies, e.fix, ZoneRows)
        /\ ~failed /\ bars => Violates(ride.lies, e.fix, ZoneRows)
    OBVIOUS
  <2> HIDE DEF bars, to, why
  <2>5. /\ order' \in Ordered /\ order'.at = to /\ order'.driver = d
        /\ order'.policy = order.policy /\ order'.why = why
        /\ order'.still => order.still /\ ~failed
    BY <2>1, <2>2 DEF Ordered
  <2>6. ~bars => "zone" \in passed
    <3>1. order.policy # "enforce" => "zone" \in passed
      BY <2>1 DEF PickerInv, PassedInv
    <3>2. ~Violates(ride.lies, e.fix, ZoneRows) => "zone" \in passed
      BY <2>1, PassedNow
    <3> QED
      BY <2>4, <3>1, <3>2
  <2>7. PassedInv'
    <3>1. /\ "searching" \in passed /\ "controller" \in passed /\ "profile" \in passed
          /\ "cash" \in passed /\ "free" \in passed
      BY <2>1 DEF PickerInv, PassedInv, PastRide, PastControl, PastProfile, PastCash,
                  PastBusy
    <3>2. ~Watching' /\ order'.at # "fix" /\ (order'.at = "handed" => ~bars)
      BY <2>2, <2>5 DEF Watching
    <3> QED
      BY <2>1, <2>6, <3>1, <3>2 DEF PassedInv
  <2>8. OrderInv'
    <3> SUFFICES ASSUME order'.still PROVE OrderInv'
      BY DEF OrderInv
    <3>1. order.still /\ ~failed
      BY <2>5
    <3>2. /\ ride.status = "searching" /\ ride.control = "mine" /\ e.profile # "barred"
          /\ ~(ride.cash /\ e.owes) /\ ~e.busy
          /\ order.policy = forRide(ride.lies, ZoneRows)
      BY <2>1, <3>1 DEF PickerInv, OrderInv, PastRide, PastControl, PastProfile, PastCash,
                        PastBusy
    <3>3. CASE bars
      <4>1. /\ order'.at = "refused" /\ order'.why = "DRIVER_OUTSIDE_RIDE_ZONE"
            /\ order.policy = "enforce" /\ Violates(ride.lies, e.fix, ZoneRows)
        BY <2>2, <2>3, <2>4, <2>5, <3>1, <3>3
      <4> QED
        BY <1>1, <1>2, <2>5, <3>2, <4>1
           DEF OrderInv, PastRide, PastControl, PastProfile, PastCash, PastBusy
    <3>4. CASE ~bars
      <4>1. /\ order'.at = "handed"
            /\ ~(order.policy = "enforce" /\ Violates(ride.lies, e.fix, ZoneRows))
        BY <2>2, <2>4, <2>5, <3>4
      <4> QED
        BY <1>1, <1>2, <2>5, <3>2, <4>1 DEF OrderInv
    <3> QED
      BY <3>3, <3>4
  <2> QED
    BY <1>2, <2>1, <2>5, <2>7, <2>8
<1> QED
  BY <1>6, <1>7, <1>8, <1>9, <1>10, <1>11, <1>12, <1>13 DEF OrderGoesOn

LEMMA PickerInvStep == PickerInv /\ [OpsPickerNext]_opsPickerVars => PickerInv'
<1> SUFFICES ASSUME PickerInv, [OpsPickerNext]_opsPickerVars PROVE PickerInv'
  OBVIOUS
<1>1. ASSUME UNCHANGED opsPickerVars PROVE PickerInv'
  <2>1. CacheStep /\ UNCHANGED <<zone, crew, ride, order, passed, shifts, panel>>
    BY <1>1 DEF opsPickerVars, CacheStep
  <2>2. panel' \in Panels
    BY <2>1 DEF PickerInv, PickerShape
  <2> QED
    BY <2>1, <2>2, OrderFrame, PanelFrame DEF PickerInv
<1> QED
  BY <1>1, PickerWorld, PickerScreen, PickerOrder DEF OpsPickerNext

LEMMA PickerInvariant == OpsPickerSpec => []PickerInv
BY PickerInvInit, PickerInvStep, PTL DEF OpsPickerSpec

\* What the invariant says of what a dispatcher is told, and what comes of it.
LEMMA PickerTells == PickerInv => OpsPickerTypeOK /\ PickerTellsTheTruth
<1> SUFFICES ASSUME PickerInv PROVE OpsPickerTypeOK /\ PickerTellsTheTruth
  OBVIOUS
<1>1. /\ panel \in Panels /\ order \in Ordered \cup NotOrdered /\ ride \in RideRow
      /\ crew \in [PickDrivers -> CrewEntry] /\ zone \in Zonings /\ ZoneRows \in Zonings
  BY DEF PickerInv, PickerShape, ZoneRows
<1>2. OpsPickerTypeOK
  <2>1. panel.of \in {"none", "queue", "picker"}
    BY <1>1, PanelSays
  <2>2. order.at \in {"idle", "ride", "control", "profile", "cash", "busy", "policy",
                      "fix", "refused", "handed"}
    BY <1>1 DEF Ordered, NotOrdered
  <2> QED
    BY <2>1, <2>2 DEF PickerInv, PickerShape, OpsPickerTypeOK, Zonings
<1>3. HandedWithin
  <2> SUFFICES ASSUME order.at = "handed" PROVE passed = Check
    BY DEF HandedWithin
  <2> QED
    BY DEF PickerInv, PickerShape, PassedInv, PastRide, PastControl, PastProfile,
           PastCash, PastBusy, Check
<1>4. PickerKeepsItsWord
  <2> SUFFICES ASSUME panel.of = "picker", panel.at = "shown", order.still, panel.still
               PROVE  /\ /\ order.at = "refused" /\ order.driver \in panel.offered
                         /\ "zones" \notin panel.missed
                         => order.why \in {"NOT_CONTROLLER", "RIDE_NOT_ASSIGNABLE"}
                      /\ /\ order.at = "handed"
                         /\ order.driver \in panel.listed \ panel.offered
                         /\ "drivers" \notin panel.missed
                         => ~crew[order.driver].beat
    BY DEF PickerKeepsItsWord
  <2> DEFINE d == order.driver
             e == crew[d]
             policy == forRide(ride.lies, ZoneRows)
             coverage == coverageOf(ride.lies, ZoneRows)
             barred == Violates(ride.lies, e.fix, ZoneRows)
  <2>1. Listed(panel.listed, panel.offered, panel.missed)
    BY <1>1, PanelSays DEF PickerInv, PanelInv
  <2>2. policy = "enforce" => coverage # "unresolved" /\ coverage \in Coverage
    BY <1>1, CoverageSays
  <2>3. policy = "enforce" => Violates(ride.lies, "none", ZoneRows)
    BY <2>2 DEF Violates, ZoneAt, Coverage, operational, Zone
  <2>4. ASSUME order.at = "refused", d \in panel.offered, "zones" \notin panel.missed
        PROVE  order.why \in {"NOT_CONTROLLER", "RIDE_NOT_ASSIGNABLE"}
    <3>1. Offerable(d)
      BY <2>1, <2>4 DEF Listed
    <3>2. \/ order.why \in {"RIDE_NOT_ASSIGNABLE", "NOT_CONTROLLER"}
          \/ order.why = "DRIVER_NOT_ELIGIBLE" /\ ~filter(e, ride.cash)
          \/ order.why = "DRIVER_OUTSIDE_RIDE_ZONE" /\ policy = "enforce" /\ barred
      BY <2>4 DEF PickerInv, OrderInv
    <3>3. ~(policy = "enforce" /\ barred)
      BY <2>2, <2>3, <3>1 DEF Offerable, FreshFix
    <3> QED
      BY <3>1, <3>2, <3>3 DEF Offerable
  <2>5. ASSUME order.at = "handed", d \in panel.listed \ panel.offered, e.beat,
               "drivers" \notin panel.missed
        PROVE  FALSE
    <3>1. /\ order.policy = policy /\ ~(order.policy = "enforce" /\ barred)
          /\ e.profile # "barred" /\ ~(ride.cash /\ e.owes) /\ ~e.busy
      BY <2>5 DEF PickerInv, OrderInv, PastRide, PastControl, PastProfile, PastCash,
                  PastBusy
    <3>2. filter(e, ride.cash)
      BY <3>1 DEF filter
    <3>3. Offerable(d)
      BY <2>5, <3>1, <3>2 DEF Offerable, FreshFix
    <3> QED
      BY <2>1, <2>5, <3>3 DEF Listed
  <2> QED
    BY <2>4, <2>5
<1>5. QueueTellsTheTruth
  <2> SUFFICES ASSUME panel.of = "queue", panel.at = "shown", panel.still
               PROVE  /\ panel.state = "NEEDS_ATTENTION" <=>
                            ride.status = "searching" /\ ride.control = "auto"
                            /\ (ride.waited # "no" \/ ride.rollup = "nobody")
                      /\ panel.state = "AUTO_HEALTHY" => ride.status = "searching"
                      /\ panel.state = "OPERATIONS_CONTROL" => ride.control # "auto"
                      /\ order.still /\ order.at = "handed" =>
                            /\ panel.state = "OPERATIONS_CONTROL"
                            /\ panel.coverage = "out_of_coverage" =>
                                  order.policy # "enforce"
    BY DEF QueueTellsTheTruth
  <2>1. /\ panel.state = queueState(ride, ride.control,
                                    assessAttention(ride, ride.rollup))
        /\ panel.coverage = coverageOf(ride.lies, ZoneRows)
    BY <1>1, PanelSays DEF PickerInv, PanelInv
  <2>2. /\ ride.rollup \in {"none", "nobody", "offered"}
        /\ ride.control \in {"auto", "mine", "theirs"}
    BY <1>1 DEF RideRow
  <2>3. /\ panel.state = "NEEDS_ATTENTION" <=>
              ride.status = "searching" /\ ride.control = "auto"
              /\ (ride.waited # "no" \/ ride.rollup = "nobody")
        /\ panel.state = "AUTO_HEALTHY" => ride.status = "searching"
        /\ panel.state = "OPERATIONS_CONTROL" <=> ride.control # "auto"
    BY <1>1, <2>1, <2>2, StateSays
  <2>4. ASSUME order.still, order.at = "handed"
        PROVE  /\ ride.control = "mine"
               /\ panel.coverage = "out_of_coverage" => order.policy # "enforce"
    <3>1. /\ ride.control = "mine"
          /\ ~(order.policy = "enforce"
               /\ Violates(ride.lies, crew[order.driver].fix, ZoneRows))
      BY <2>4 DEF PickerInv, OrderInv, PastRide, PastControl
    <3> QED
      BY <2>1, <3>1 DEF Violates
  <2> QED
    BY <2>3, <2>4
<1> QED
  BY <1>2, <1>3, <1>4, <1>5 DEF PickerTellsTheTruth

-----------------------------------------------------------------------------
(* The lists together                                                       *)

ListsInv == FloorInv /\ PickerInv

LEMMA ListSteps ==
    [StaffNext]_staffVars => [FloorNext]_floorVars /\ [OpsPickerNext]_opsPickerVars
BY DEF StaffNext, staffVars

\* What the dispatcher reads of a park's drivers and of the drivers for a ride is
\* what a tap on it meets (park_ops_service.ts, operations_service.ts): in every
\* run, for every number of drivers, zones, and turns of the world.
THEOREM ListsTrue == StaffSpec => []ListsTellTheTruth
<1>1. StaffInit => ListsInv
  BY FloorInvInit, PickerInvInit DEF StaffInit, ListsInv
<1>2. ListsInv /\ [StaffNext]_staffVars => ListsInv'
  BY ListSteps, FloorInvStep, PickerInvStep DEF ListsInv
<1>3. ListsInv => ListsTellTheTruth
  BY FloorTells, PickerTells DEF ListsInv, ListsTellTheTruth
<1> QED BY <1>1, <1>2, <1>3, PTL DEF StaffSpec

-----------------------------------------------------------------------------
(* The live monitor                                                         *)

LEMMA MonitorSteps == [StaffNext]_staffVars => [MonitorNext]_monitorVars
BY DEF StaffNext, staffVars

\* What the live page and the detail tell of a quiet ride is what happened
\* (dispatch_event_projection.ts, dispatch_monitor_query_service.ts,
\* live_requests.js): in every run, for every number of rides, offers, syncs and
\* frames under way.
THEOREM MonitorTrue == StaffSpec => []MonitorTellsTheTruth
<1>1. StaffInit => MonitorInv
  BY MonitorStarts DEF StaffInit
<1>2. MonitorInv /\ [StaffNext]_staffVars => MonitorInv'
  BY MonitorSteps, MonitorKeeps
<1> QED
  BY <1>1, <1>2, MonitorSaysSo, PTL DEF StaffSpec

\* The rows, the trail, the frames and the answers on their way keep their types:
\* no count of the live page runs past what can have happened of it, the answer it
\* came in counted with the frame (live_requests.js, dispatch_event_projection.ts),
\* for every number of rides, offers and syncs.
THEOREM MonitorTypes == StaffSpec => []MonitorTypeOK
<1>1. StaffInit => BoundsInv
  BY BoundsStart DEF StaffInit
<1>2. BoundsInv /\ [StaffNext]_staffVars => BoundsInv'
  BY MonitorSteps, BoundsKeep
<1> QED
  BY <1>1, <1>2, BoundsAreTypes, PTL DEF StaffSpec

-----------------------------------------------------------------------------
(* The services together                                                    *)

\* A run of the staff services is, seen by each of them, a run of that service: it
\* moves as it moves alone, or not at all.
THEOREM EachStaffServiceRuns ==
    StaffSpec => /\ SessionSpec /\ BoardSpec /\ OpsBoardSpec /\ ConsoleSpec
                 /\ MonitorSpec /\ ParkAdminSpec /\ BadgesSpec
                 /\ DriverFileSpec /\ FloorSpec /\ OpsPickerSpec /\ AccountsSpec
<1>1. StaffInit => /\ SessionInit /\ BoardInit /\ OpsBoardInit /\ ConsoleInit
                   /\ MonitorInit /\ ParkAdminInit /\ BadgesInit
                   /\ DriverFileInit /\ FloorInit /\ OpsPickerInit /\ AccountsInit
  BY DEF StaffInit
<1>2. [StaffNext]_staffVars => /\ [SessionNext]_sessionVars /\ [BoardNext]_boardVars
                               /\ [OpsBoardNext]_opsBoardVars
                               /\ [ConsoleNext]_consoleVars
                               /\ [MonitorNext]_monitorVars
                               /\ [ParkAdminNext]_parkAdminVars
                               /\ [BadgesNext]_badgesVars
                               /\ [DriverFileNext]_driverFileVars
                               /\ [FloorNext]_floorVars
                               /\ [OpsPickerNext]_opsPickerVars
                               /\ [AccountsNext]_accountVars
  BY PageSteps, RecordSteps, ListSteps, MonitorSteps
<1> QED
  BY <1>1, <1>2, PTL DEF StaffSpec, SessionSpec, BoardSpec, OpsBoardSpec, ConsoleSpec,
                         MonitorSpec, ParkAdminSpec, BadgesSpec, DriverFileSpec,
                         FloorSpec, OpsPickerSpec, AccountsSpec

\* The types of the services that share their argument.
LEMMA PageTypes ==
    PagesInv => /\ SessionTypeOK /\ BoardTypeOK /\ OpsBoardTypeOK /\ ConsoleTypeOK
                /\ AccountsTypeOK
BY DEF PagesInv, SessionInv, BoardInv, OpsBoardInv, ConsoleInv, AccountsInv

LEMMA RecordTypes == RecordsInv => ParkAdminTypeOK /\ BadgesTypeOK /\ DriverFileTypeOK
BY DEF RecordsInv, ParkRowsInv, BadgesInv, FileInv, ParkAdminTypeOK, BadgesTypeOK,
       DriverFileTypeOK

\* The state of every staff service keeps its type in every run of them all, for any
\* number of tabs, requests, parks, badges, files, drivers, rides and frames under way.
THEOREM StaffTypes == StaffSpec => []StaffTypeOK
<1>1. StaffInit => PagesInv /\ RecordsInv /\ ListsInv
  BY SessionInvInit, BoardInvInit, OpsBoardInvInit, ConsoleInvInit, ParkRowsInit,
     BadgesInvInit, FileInvInit, FloorInvInit, PickerInvInit, AccountsStart
     DEF StaffInit, PagesInv, RecordsInv, ListsInv
<1>2. PagesInv /\ [StaffNext]_staffVars => PagesInv'
  BY PageSteps, SessionInvStep, BoardInvStep, OpsBoardInvStep, ConsoleInvStep,
     AccountsStepKeeps DEF PagesInv
<1>3. RecordsInv /\ [StaffNext]_staffVars => RecordsInv'
  BY RecordSteps, ParkRowsStep, BadgesInvStep, FileInvStep, AccountsStepKeeps DEF RecordsInv
<1>4. ListsInv /\ [StaffNext]_staffVars => ListsInv'
  BY ListSteps, FloorInvStep, PickerInvStep DEF ListsInv
<1>5. PagesInv /\ RecordsInv /\ ListsInv /\ MonitorTypeOK => StaffTypeOK
  BY PageTypes, RecordTypes, FloorTells, PickerTells DEF ListsInv, StaffTypeOK
<1> QED
  BY <1>1, <1>2, <1>3, <1>4, <1>5, MonitorTypes, PTL DEF StaffSpec

\* What staff see and do stands in every run of their services: pages, lists and the
\* live monitor tell what is so, and rows saved whole keep their promise.
THEOREM StaffServicesStand ==
    StaffSpec => /\ [](PagesStand /\ ListsTellTheTruth /\ MonitorTellsTheTruth)
                 /\ RecordsStand
BY PagesTrue, ListsTrue, MonitorTrue, RecordsTrue, PTL

=============================================================================
