------------------------- MODULE RelyingParty_proofs --------------------------
(***************************************************************************)
(* What a relying party's pages promise, for any number of tabs, states    *)
(* and rotations: one token request at a time, signed in only with a       *)
(* verified token of the sign-on the tab began, a code met by its key.     *)
(***************************************************************************)
EXTENDS RelyingParty, SequenceTheorems, TLAPS

-------------------------------------------------------------------------------
(***************************************************************************)
(* The invariant.                                                          *)
(***************************************************************************)

CallbackPage ==
  [at : {"callback"}, code : Code, status : {"pending", "ok", "failed", "error"},
   key : Nat, runs : Seq(Run), refreshToken : Credential, button : BOOLEAN,
   shown : AccessToken, badge : BOOLEAN]

OfCode(token, p) == token # NoToken => token.flow = p.code.flow

\* A callback page by itself: one request at most, its button off meanwhile; every token
\* stems from the code; the banner and the badge stand for a token that verifies.
CallbackInv(p) ==
  /\ p \in CallbackPage
  /\ p.runs # << >> => Len(p.runs) = 1 /\ ~p.button /\ p.status = "pending"
  /\ \A i \in DOMAIN p.runs :
       /\ p.runs[i].credential.flow = p.code.flow
       /\ p.runs[i].stage = "jwks" => p.runs[i].at.flow = p.code.flow
       /\ OfCode(p.runs[i].rt, p)
       /\ p.runs[i].rt # NoToken => p.runs[i].rt.gen = p.runs[i].credential.gen + 1
       /\ p.refreshToken # NoToken => p.runs[i].credential = p.refreshToken
  /\ OfCode(p.refreshToken, p)
  /\ p.refreshToken # NoToken /\ p.runs = << >> => p.button \/ p.status = "error"
  /\ p.status = "ok" => VerifyAccessToken(p.shown, p.key) /\ p.shown.flow = p.code.flow
  /\ p.badge => VerifyAccessToken(p.shown, p.key)
  /\ p.runs # << >> \/ p.refreshToken # NoToken \/ p.status = "ok" \/ p.badge => p.key # None

\* A tab, with the state it saved and how many were drawn: a page still waiting for its
\* key has done nothing else, and one that got it is of the sign-on the tab began.
TabInv(p, o, s, n) ==
  /\ p \in Page
  /\ o \in {"no", "get", "put"}
  /\ s \in 0..n
  /\ o # "no" => \/ p.at = "landing"
                 \/ p.at = "callback" /\ p = Callback(p.code, "pending")
  /\ p.at = "landing" => p.state \in 0..n
  /\ p.at = "demo" =>
       /\ p.query.state \in 0..n
       /\ FlowReady(p.query)
       /\ p.step = "completed" => p.code = [jkt |-> p.query.jkt, flow |-> p.query.state]
  /\ p.at = "callback" =>
       /\ CallbackInv(p)
       /\ o # "no" \/ p.key # None => p.code.flow = s

\* A callback address of a sign-on.
UrlInv(url, n) ==
  /\ url \in [code : Code, state : 0..n, error : BOOLEAN]
  /\ url.code # NoCode => url.code.flow = url.state

\* With one key ever made, everything is bound to it.
BoundTo(p, k) ==
  /\ p.at = "landing" => p.key \in {None, k}
  /\ p.at = "demo" => p.query.jkt = k /\ k # None
  /\ p.at = "callback" => p.code.jkt = k /\ k # None /\ p.key \in {None, k}

OneKey ==
  /\ \A t \in Tab : BoundTo(page[t], stored)
  /\ \A url \in urls : url.code # NoCode => url.code.jkt = stored /\ stored # None
  /\ \A t \in Tab : opening[t] = "put" =>
       stored = None /\ \A u \in Tab \ {t} : opening[u] # "put"

RpInv ==
  /\ page = [t \in Tab |-> page[t]]
  /\ opening = [t \in Tab |-> opening[t]]
  /\ saved = [t \in Tab |-> saved[t]]
  /\ stored \in 0..made /\ made \in Nat /\ states \in 0..MaxState /\ overlapped \in BOOLEAN
  /\ \A t \in Tab : TabInv(page[t], opening[t], saved[t], states)
  /\ \A url \in urls : UrlInv(url, states)
  /\ ~overlapped => OneKey

-------------------------------------------------------------------------------
(***************************************************************************)
(* Callback pages.                                                         *)
(***************************************************************************)

LEMMA RemoveOnly == ASSUME NEW S, NEW s \in Seq(S), Len(s) = 1 PROVE RemoveAt(s, 1) = << >>
  BY DEF RemoveAt

\* A page that has no request under way may begin one with a credential of its code.
LEMMA ExchangeInv ==
  ASSUME NEW p, CallbackInv(p), p.runs = << >>, p.key # None,
         NEW c \in Credential, c.flow = p.code.flow,
         p.refreshToken # NoToken => c = p.refreshToken
  PROVE  /\ CallbackInv(Exchange(p, c))
         /\ Exchange(p, c).code = p.code /\ Exchange(p, c).key = p.key
         /\ Exchange(p, c).refreshToken = p.refreshToken
<1>. DEFINE r == [stage |-> "token", credential |-> c, at |-> NoAccess, rt |-> NoToken]
            s == Append(p.runs, r)
            q == Exchange(p, c)
<1>1. r \in Run
  BY DEF Run, NoAccess, AccessToken, NoToken, Credential, None
<1>2. r.credential = c /\ r.stage = "token" /\ r.rt = NoToken
  OBVIOUS
<1>3. q = [p EXCEPT !.status = "pending", !.button = FALSE, !.runs = s]
  BY DEF Exchange
<1>. HIDE DEF r
<1>4. s \in Seq(Run) /\ Len(s) = 1 /\ s[1] = r /\ DOMAIN s = {1} /\ s # << >>
  BY <1>1
<1>. HIDE DEF s, q
<1>5. q \in CallbackPage
  BY <1>3, <1>4 DEF CallbackInv, CallbackPage
<1>6. /\ q.code = p.code /\ q.key = p.key /\ q.runs = s /\ q.status = "pending"
      /\ q.button = FALSE /\ q.refreshToken = p.refreshToken /\ q.shown = p.shown
      /\ q.badge = p.badge
  BY <1>3 DEF CallbackInv, CallbackPage
<1>7. CallbackInv(q)
  BY <1>2, <1>4, <1>5, <1>6 DEF CallbackInv, OfCode
<1>. QED  BY <1>6, <1>7 DEF q

\* The request that ends was the only one.
LEMMA EndRunIs ==
  ASSUME NEW p, CallbackInv(p), NEW i \in DOMAIN p.runs
  PROVE  LET e == EndRun(p, i) IN
         /\ e \in CallbackPage /\ e.runs = << >>
         /\ e.code = p.code /\ e.key = p.key /\ e.status = p.status /\ e.button = p.button
         /\ e.refreshToken = p.refreshToken /\ e.shown = p.shown /\ e.badge = p.badge
         /\ p.key # None /\ p.runs[i] \in Run
<1>. DEFINE e == EndRun(p, i)
            s == RemoveAt(p.runs, i)
<1>1. p.runs \in Seq(Run) /\ p \in CallbackPage
  BY DEF CallbackInv, CallbackPage
<1>2. p.runs # << >>
  BY <1>1
<1>3. Len(p.runs) = 1 /\ p.key # None
  BY <1>2 DEF CallbackInv
<1>4. i = 1
  BY <1>1, <1>3
<1>5. s = << >> /\ s \in Seq(Run) /\ p.runs[i] \in Run
  <2>1. RemoveAt(p.runs, 1) = << >>
    BY <1>1, <1>3, RemoveOnly
  <2>2. p.runs[i] \in Run
    BY <1>1
  <2>3. s = << >>
    BY <1>4, <2>1
  <2>4. << >> \in Seq(Run)
    OBVIOUS
  <2>. QED  BY <2>2, <2>3, <2>4
<1>6. e = [p EXCEPT !.runs = s]
  BY DEF EndRun
<1>. HIDE DEF e, s
<1>7. /\ e \in CallbackPage /\ e.runs = s
      /\ e.code = p.code /\ e.key = p.key /\ e.status = p.status /\ e.button = p.button
      /\ e.refreshToken = p.refreshToken /\ e.shown = p.shown /\ e.badge = p.badge
  BY <1>1, <1>5, <1>6 DEF CallbackPage
<1>. QED  BY <1>3, <1>5, <1>7 DEF e

\* A failure is shown, and the button is on again if the page holds a refresh token.
LEMMA FailPageIs ==
  ASSUME NEW p \in CallbackPage, NEW status \in {"failed", "error"}
  PROVE  LET f == FailPage(p, status) IN
         /\ f \in CallbackPage /\ f.runs = p.runs
         /\ f.code = p.code /\ f.key = p.key /\ f.status = status /\ f.button = FALSE
         /\ f.refreshToken = p.refreshToken /\ f.shown = p.shown /\ f.badge = p.badge
  BY DEF FailPage, CallbackPage

LEMMA FailRunIs ==
  ASSUME NEW p, CallbackInv(p), NEW i \in DOMAIN p.runs
  PROVE  LET f == FailRun(p, i) IN
         /\ f \in CallbackPage /\ f.runs = << >>
         /\ f.code = p.code /\ f.key = p.key /\ f.status = "failed"
         /\ f.button = (p.refreshToken # NoToken)
         /\ f.refreshToken = p.refreshToken /\ f.shown = p.shown /\ f.badge = p.badge
<1>. DEFINE e == EndRun(p, i)
            g == FailPage(e, "failed")
            b == p.refreshToken # NoToken
            f == FailRun(p, i)
<1>1. /\ g \in CallbackPage /\ g.runs = << >>
      /\ g.code = p.code /\ g.key = p.key /\ g.status = "failed"
      /\ g.refreshToken = p.refreshToken /\ g.shown = p.shown /\ g.badge = p.badge
  <2>1. /\ e \in CallbackPage /\ e.runs = << >> /\ e.code = p.code /\ e.key = p.key
        /\ e.refreshToken = p.refreshToken /\ e.shown = p.shown /\ e.badge = p.badge
    BY EndRunIs
  <2>. HIDE DEF e
  <2>. QED  BY <2>1, FailPageIs
<1>2. f = [g EXCEPT !.button = b] /\ b \in BOOLEAN
  BY DEF FailRun
<1>. HIDE DEF g, b, f
<1>3. /\ f \in CallbackPage /\ f.runs = g.runs
      /\ f.code = g.code /\ f.key = g.key /\ f.status = g.status /\ f.button = b
      /\ f.refreshToken = g.refreshToken /\ f.shown = g.shown /\ f.badge = g.badge
  BY <1>1, <1>2 DEF CallbackPage
<1>. QED  BY <1>1, <1>3 DEF b, f

\* A page whose request ends without a token keeps what it shows and holds.
LEMMA FailuresInv ==
  ASSUME NEW p, CallbackInv(p), NEW i \in DOMAIN p.runs,
         NEW f \in {FailRun(p, i), FailPage(EndRun(p, i), "error")}
  PROVE  CallbackInv(f) /\ f.code = p.code /\ f.key = p.key /\ f.refreshToken = p.refreshToken
<1>1. /\ f \in CallbackPage /\ f.runs = << >>
      /\ f.code = p.code /\ f.key = p.key /\ p.key # None
      /\ f.refreshToken = p.refreshToken /\ f.shown = p.shown /\ f.badge = p.badge
      /\ \/ f.status = "failed" /\ f.button = (p.refreshToken # NoToken)
         \/ f.status = "error"
  <2>. DEFINE e == EndRun(p, i)
  <2>1. /\ e \in CallbackPage /\ e.runs = << >> /\ e.code = p.code /\ e.key = p.key
        /\ p.key # None
        /\ e.refreshToken = p.refreshToken /\ e.shown = p.shown /\ e.badge = p.badge
    BY EndRunIs
  <2>2. CASE f = FailRun(p, i)
    BY <2>1, <2>2, FailRunIs
  <2>3. CASE f = FailPage(e, "error")
    <3>. HIDE DEF e
    <3>. QED  BY <2>1, <2>3, FailPageIs
  <2>. QED  BY <2>2, <2>3
<1>2. DOMAIN f.runs = {}
  BY <1>1
<1>. QED  BY <1>1, <1>2 DEF CallbackInv, OfCode

\* A token that is shown stems from the code; the banner and the badge say if it verifies.
LEMMA RenderInv ==
  ASSUME NEW p, CallbackInv(p), NEW i \in DOMAIN p.runs, p.runs[i].stage = "jwks"
  PROVE  LET f == RenderResult(p, i) IN
         /\ CallbackInv(f) /\ f.code = p.code /\ f.key = p.key
         /\ f.refreshToken = p.runs[i].rt
         /\ p.refreshToken # NoToken /\ f.refreshToken # NoToken =>
              f.refreshToken.gen = p.refreshToken.gen + 1
<1>. DEFINE r == p.runs[i]
            valid == VerifyAccessToken(r.at, p.key)
            held == r.rt # NoToken
            status == IF valid THEN "ok" ELSE "failed"
            e == EndRun(p, i)
            f == RenderResult(p, i)
<1>1. /\ e \in CallbackPage /\ e.runs = << >> /\ e.code = p.code /\ e.key = p.key
      /\ p.key # None /\ r \in Run
  BY EndRunIs
<1>2. /\ r.at \in AccessToken /\ r.rt \in Credential
      /\ r.at.flow = p.code.flow /\ OfCode(r.rt, p)
  BY <1>1 DEF Run, CallbackInv
<1>3. /\ f = [e EXCEPT !.shown = r.at, !.refreshToken = r.rt, !.button = held,
                       !.status = status, !.badge = valid]
      /\ held \in BOOLEAN /\ valid \in BOOLEAN
      /\ held <=> r.rt # NoToken
      /\ valid <=> VerifyAccessToken(r.at, p.key)
      /\ status \in {"ok", "failed"} /\ (status = "ok" <=> valid)
  BY DEF RenderResult, VerifyAccessToken
<1>. HIDE DEF e, f, held, valid, status, r
<1>4. /\ f \in CallbackPage
      /\ f.runs = << >> /\ f.code = p.code /\ f.key = p.key
      /\ f.shown = r.at /\ f.refreshToken = r.rt /\ f.button = held
      /\ f.status = status /\ f.badge = valid
  BY <1>1, <1>2, <1>3 DEF CallbackPage
<1>5. DOMAIN f.runs = {}
  BY <1>4
<1>6. CallbackInv(f)
  BY <1>1, <1>2, <1>3, <1>4, <1>5 DEF CallbackInv, OfCode
<1>7. p.refreshToken # NoToken /\ r.rt # NoToken => r.rt.gen = p.refreshToken.gen + 1
  BY DEF CallbackInv, r
<1>. QED  BY <1>4, <1>6, <1>7 DEF f, r

\* What /token answers to a credential of the code is of the code, and a generation on.
LEMMA AnswersInv ==
  ASSUME NEW p, CallbackInv(p), NEW i \in DOMAIN p.runs, NEW f \in TokenAnswers(p, i)
  PROVE  CallbackInv(f) /\ f.code = p.code /\ f.key = p.key /\ f.refreshToken = p.refreshToken
<1>. DEFINE r == p.runs[i]
<1>1. p \in CallbackPage /\ p.runs \in Seq(Run) /\ p.runs # << >> /\ r \in Run
  BY DEF CallbackInv, CallbackPage
<1>2. /\ r.stage \in {"token", "jwks"} /\ r.credential \in Credential
      /\ r.credential.flow = p.code.flow
      /\ p.refreshToken # NoToken => r.credential = p.refreshToken
  BY <1>1 DEF CallbackInv, Run
<1>3. PICK flaw \in Flaw \cup {"none"}, rt \in {NoToken, NextToken(r.credential)} :
        f = Issued(p, i, flaw, rt)
  BY DEF TokenAnswers
<1>. DEFINE at == [jkt |-> r.credential.jkt, flow |-> r.credential.flow, flaw |-> flaw]
            new == [r EXCEPT !.stage = "jwks", !.rt = rt, !.at = at]
            s == [p.runs EXCEPT ![i] = new]
<1>4. /\ at \in AccessToken /\ at.flow = p.code.flow
      /\ rt \in Credential
      /\ rt # NoToken => rt.flow = p.code.flow /\ rt.gen = r.credential.gen + 1
  BY <1>2 DEF AccessToken, Credential, NextToken, NoToken, None
<1>5. f = [p EXCEPT !.runs = s]
  BY <1>3 DEF Issued
<1>. HIDE DEF at
<1>6. /\ new \in Run /\ new.stage = "jwks" /\ new.at = at /\ new.rt = rt
      /\ new.credential = r.credential
  BY <1>1, <1>4 DEF Run
<1>. HIDE DEF new, r
<1>7. /\ s \in Seq(Run) /\ Len(s) = Len(p.runs) /\ DOMAIN s = DOMAIN p.runs /\ s # << >>
      /\ \A j \in DOMAIN p.runs : s[j] = IF j = i THEN new ELSE p.runs[j]
  BY <1>1, <1>6, ExceptSeq
<1>. HIDE DEF s
<1>8. /\ f \in CallbackPage /\ f.runs = s
      /\ f.code = p.code /\ f.key = p.key /\ f.status = p.status /\ f.button = p.button
      /\ f.refreshToken = p.refreshToken /\ f.shown = p.shown /\ f.badge = p.badge
  BY <1>1, <1>5, <1>7 DEF CallbackPage
<1>9. CallbackInv(f)
  <2>1. /\ f.runs # << >> /\ p.runs # << >>
        /\ Len(f.runs) = 1 /\ ~f.button /\ f.status = "pending" /\ f.key # None
    BY <1>1, <1>7, <1>8 DEF CallbackInv
  <2>2. ASSUME NEW j \in DOMAIN f.runs
        PROVE  /\ f.runs[j].credential.flow = f.code.flow
               /\ f.runs[j].stage = "jwks" => f.runs[j].at.flow = f.code.flow
               /\ OfCode(f.runs[j].rt, f)
               /\ f.runs[j].rt # NoToken => f.runs[j].rt.gen = f.runs[j].credential.gen + 1
               /\ f.refreshToken # NoToken => f.runs[j].credential = f.refreshToken
    <3>1. CASE j = i
      BY <1>2, <1>4, <1>6, <1>7, <1>8, <3>1 DEF OfCode
    <3>2. CASE j # i
      <4>1. f.runs[j] = p.runs[j] /\ j \in DOMAIN p.runs
        BY <1>7, <1>8, <3>2
      <4>. QED  BY <1>8, <4>1 DEF CallbackInv, OfCode
    <3>. QED  BY <3>1, <3>2
  <2>. QED  BY <1>8, <2>1, <2>2 DEF CallbackInv, OfCode
<1>. QED  BY <1>8, <1>9

-------------------------------------------------------------------------------
(***************************************************************************)
(* Pages as they are served.                                               *)
(***************************************************************************)

LEMMA CallbackShown ==
  ASSUME NEW c \in Code, NEW status \in {"pending", "failed"}
  PROVE  LET p == Callback(c, status) IN
         /\ p \in Page /\ CallbackInv(p) /\ p.at = "callback" /\ p.code = c
         /\ p.key = None /\ p.runs = << >> /\ p.refreshToken = NoToken
<1>. DEFINE p == Callback(c, status)
<1>1. NoToken \in Credential /\ NoAccess \in AccessToken /\ None \in Nat /\ << >> \in Seq(Run)
  BY DEF NoToken, Credential, NoAccess, AccessToken, None
<1>2. p \in CallbackPage
  BY <1>1 DEF Callback, CallbackPage
<1>3. /\ p.at = "callback" /\ p.code = c /\ p.status = status /\ p.key = None
      /\ p.runs = << >> /\ p.refreshToken = NoToken /\ ~p.badge
  BY DEF Callback
<1>4. DOMAIN p.runs = {}
  BY <1>3
<1>5. CallbackInv(p)
  BY <1>2, <1>3, <1>4 DEF CallbackInv, OfCode
<1>. QED  BY <1>2, <1>3, <1>5 DEF Page, CallbackPage

LEMMA BlankShown ==
  ASSUME NEW s, NEW n, s \in 0..n, NEW k
  PROVE  TabInv(Blank, "no", s, n) /\ BoundTo(Blank, k)
  BY DEF TabInv, BoundTo, Blank, Page

\* A callback address that fits the tab's state, or is refused.
LEMMA UrlShown ==
  ASSUME NEW t \in Tab, NEW url, UrlInv(url, states), saved[t] \in 0..states,
         HandleCallback(t, url)
  PROVE  \E p, o : /\ TabInv(p, o, saved[t], states) /\ o \in {"no", "get"}
                   /\ page' = [page EXCEPT ![t] = p] /\ opening' = [opening EXCEPT ![t] = o]
                   /\ \/ p = Blank
                      \/ p.at = "callback" /\ p.code = url.code /\ url.code # NoCode
                           /\ p.key = None
<1>1. CASE Show(t, Blank, "no")
  BY <1>1, BlankShown DEF Show
<1>2. CASE url.code # NoCode /\ Show(t, Callback(url.code, "failed"), "no")
  <2>. DEFINE p == Callback(url.code, "failed")
  <2>1. /\ p \in Page /\ CallbackInv(p) /\ p.at = "callback" /\ p.code = url.code
        /\ p.key = None
    BY CallbackShown DEF UrlInv
  <2>. HIDE DEF p
  <2>2. TabInv(p, "no", saved[t], states)
    BY <2>1 DEF TabInv
  <2>3. page' = [page EXCEPT ![t] = p] /\ opening' = [opening EXCEPT ![t] = "no"]
    BY <1>2 DEF Show, p
  <2>. QED  BY <1>2, <2>1, <2>2, <2>3
<1>3. CASE url.code # NoCode /\ StateMatches(t, url) /\ Show(t, Callback(url.code, "pending"), "get")
  <2>. DEFINE p == Callback(url.code, "pending")
  <2>1. /\ p \in Page /\ CallbackInv(p) /\ p.at = "callback" /\ p.code = url.code
        /\ p.key = None
    BY CallbackShown DEF UrlInv
  <2>2. p = Callback(p.code, "pending")
    BY <2>1
  <2>3. page' = [page EXCEPT ![t] = p] /\ opening' = [opening EXCEPT ![t] = "get"]
    BY <1>3 DEF Show
  <2>. HIDE DEF p
  <2>4. TabInv(p, "get", saved[t], states)
    BY <1>3, <2>1, <2>2 DEF TabInv, StateMatches, UrlInv
  <2>. QED  BY <1>3, <2>1, <2>3, <2>4
<1>. QED  BY <1>1, <1>2, <1>3 DEF HandleCallback

-------------------------------------------------------------------------------
(***************************************************************************)
(* Every step keeps the invariant.                                         *)
(***************************************************************************)

LEMMA MoreStates ==
  ASSUME NEW n \in Nat, NEW m \in Nat, n <= m
  PROVE  /\ \A p, o, s : TabInv(p, o, s, n) => TabInv(p, o, s, m)
         /\ \A url : UrlInv(url, n) => UrlInv(url, m)
<1>1. ASSUME NEW x \in 0..n PROVE x \in 0..m
  OBVIOUS
<1>. QED  BY <1>1 DEF TabInv, UrlInv

\* One tab goes on, and draws no key.
LEMMA OneTabInv ==
  ASSUME RpInv, NEW t \in Tab, NEW p, NEW o, NEW s,
         page' = [page EXCEPT ![t] = p], opening' = [opening EXCEPT ![t] = o],
         saved' = [saved EXCEPT ![t] = s], UNCHANGED <<stored, made, overlapped>>,
         states' \in states..MaxState,
         TabInv(p, o, s, states'),
         ~overlapped => BoundTo(p, stored),
         o # "put",
         \A url \in urls' \ urls :
           UrlInv(url, states') /\
             (~overlapped /\ url.code # NoCode => url.code.jkt = stored /\ stored # None)
  PROVE  RpInv'
<1>1. /\ page' = [u \in Tab |-> page'[u]] /\ opening' = [u \in Tab |-> opening'[u]]
      /\ saved' = [u \in Tab |-> saved'[u]]
      /\ \A u \in Tab : /\ page'[u] = IF u = t THEN p ELSE page[u]
                        /\ opening'[u] = IF u = t THEN o ELSE opening[u]
                        /\ saved'[u] = IF u = t THEN s ELSE saved[u]
  BY DEF RpInv
<1>2. states \in Nat /\ states' \in Nat /\ states <= states' /\ states' \in 0..MaxState
  BY BoundsAssumption DEF RpInv
<1>3. \A u \in Tab : TabInv(page'[u], opening'[u], saved'[u], states')
  BY <1>1, <1>2, MoreStates DEF RpInv
<1>4. \A url \in urls' : UrlInv(url, states')
  BY <1>2, MoreStates DEF RpInv
<1>5. ~overlapped => OneKey'
  BY <1>1 DEF RpInv, OneKey
<1>. QED  BY <1>1, <1>2, <1>3, <1>4, <1>5 DEF RpInv

\* A tab goes on without drawing a state or an address.
LEMMA OnePageInv ==
  ASSUME RpInv, NEW t \in Tab, NEW p,
         page' = [page EXCEPT ![t] = p],
         UNCHANGED <<stored, made, states, saved, urls, overlapped>>,
         \/ UNCHANGED opening /\ TabInv(p, opening[t], saved[t], states)
              /\ (~overlapped => opening[t] # "put")
         \/ opening' = [opening EXCEPT ![t] = "no"] /\ TabInv(p, "no", saved[t], states),
         ~overlapped => BoundTo(p, stored)
  PROVE  RpInv'
<1>1. /\ page' = [u \in Tab |-> page'[u]] /\ opening' = [u \in Tab |-> opening'[u]]
      /\ \A u \in Tab : /\ page'[u] = IF u = t THEN p ELSE page[u]
                        /\ u # t => opening'[u] = opening[u]
  BY DEF RpInv
<1>2. opening'[t] \in {opening[t], "no"} /\ TabInv(p, opening'[t], saved[t], states)
        /\ (~overlapped => opening'[t] # "put")
  BY DEF RpInv
<1>3. \A u \in Tab : TabInv(page'[u], opening'[u], saved[u], states)
  BY <1>1, <1>2 DEF RpInv
<1>4. ~overlapped => OneKey'
  BY <1>1, <1>2 DEF RpInv, OneKey
<1>. QED  BY <1>1, <1>3, <1>4 DEF RpInv

\* A page that waited for its key gets it.
LEMMA WithKeyInv ==
  ASSUME NEW p, NEW o, NEW s, NEW n, TabInv(p, o, s, n), o # "no", NEW k \in Nat \ {None}
  PROVE  /\ TabInv(WithKey(p, k), "no", s, n)
         /\ WithKey(p, k).at = p.at /\ WithKey(p, k).key = k
         /\ p.at = "callback" => WithKey(p, k).code = p.code
         /\ BoundTo(p, k) => BoundTo(WithKey(p, k), k)
<1>1. CASE p.at = "landing"
  <2>1. p \in [at : {"landing"}, state : Nat, key : Nat]
    BY <1>1 DEF TabInv, Page, Blank
  <2>2. WithKey(p, k) = [p EXCEPT !.key = k]
    BY <1>1 DEF WithKey
  <2>. DEFINE q == WithKey(p, k)
  <2>. HIDE DEF q
  <2>3. /\ q \in [at : {"landing"}, state : Nat, key : Nat]
        /\ q.at = "landing" /\ q.state = p.state /\ q.key = k
    BY <2>1, <2>2 DEF q
  <2>4. TabInv(q, "no", s, n)
    BY <1>1, <2>3 DEF TabInv, Page
  <2>. QED  BY <1>1, <2>3, <2>4 DEF BoundTo, q
<1>2. CASE p.at = "callback" /\ p = Callback(p.code, "pending")
  <2>. DEFINE c == [jkt |-> p.code.jkt, flow |-> p.code.flow, gen |-> 0]
              q == [p EXCEPT !.key = k]
              r == Exchange(q, c)
  <2>1. /\ p \in CallbackPage /\ p.code \in Code /\ p.code.flow = s /\ CallbackInv(p)
    BY <1>2 DEF TabInv, CallbackInv, CallbackPage
  <2>2. c \in Credential /\ c.flow = p.code.flow
    BY <2>1 DEF Credential, Code
  <2>3. WithKey(p, k) = r
    BY <1>2 DEF WithKey
  <2>4. /\ p.status = "pending" /\ p.runs = << >> /\ p.refreshToken = NoToken /\ ~p.badge
    BY <1>2 DEF Callback
  <2>5. /\ q \in CallbackPage /\ q.code = p.code /\ q.key = k /\ q.status = "pending"
        /\ q.runs = << >> /\ q.refreshToken = NoToken /\ ~q.badge
    BY <2>1, <2>4 DEF CallbackPage
  <2>. HIDE DEF q, c
  <2>6. CallbackInv(q)
    <3>1. DOMAIN q.runs = {}
      BY <2>5
    <3>. QED  BY <2>5, <3>1 DEF CallbackInv, OfCode
  <2>7. CallbackInv(r) /\ r.code = p.code /\ r.key = k
    BY <2>2, <2>5, <2>6, ExchangeInv
  <2>. HIDE DEF r
  <2>8. r \in Page /\ r.at = "callback"
    BY <2>7 DEF CallbackInv, CallbackPage, Page
  <2>9. TabInv(r, "no", s, n)
    BY <1>2, <2>1, <2>7, <2>8 DEF TabInv
  <2>. QED  BY <1>2, <2>3, <2>7, <2>8, <2>9 DEF BoundTo
<1>. QED  BY <1>1, <1>2 DEF TabInv

\* Before there is a key, no page is bound to one.
LEMMA NoneBound ==
  ASSUME NEW p, BoundTo(p, None)
  PROVE  p.at \notin {"demo", "callback"} /\ \A k : BoundTo(p, k)
  BY DEF BoundTo

LEMMA KeyStepInv ==
  ASSUME RpInv, NEW t \in Tab, KeyStep(t)
  PROVE  RpInv'
<1>. DEFINE p == page[t]
<1>1. TabInv(p, opening[t], saved[t], states) /\ (~overlapped => BoundTo(p, stored))
  BY DEF RpInv, OneKey
<1>2. CASE /\ stored # None /\ opening[t] = "get" /\ HasKey(t, stored)
           /\ UNCHANGED <<stored, made, states, saved, urls, overlapped>>
  <2>1. stored \in Nat \ {None}
    BY <1>2 DEF RpInv
  <2>. DEFINE q == WithKey(p, stored)
  <2>2. TabInv(q, "no", saved[t], states) /\ (~overlapped => BoundTo(q, stored))
    BY <1>1, <1>2, <2>1, WithKeyInv
  <2>3. page' = [page EXCEPT ![t] = q] /\ opening' = [opening EXCEPT ![t] = "no"]
    BY <1>2 DEF HasKey
  <2>. HIDE DEF q
  <2>. QED  BY <1>2, <2>2, <2>3, OnePageInv
<1>3. CASE /\ stored = None /\ opening[t] = "get"
           /\ opening' = [opening EXCEPT ![t] = "put"]
           /\ overlapped' = (overlapped \/ \E u \in Tab \ {t} : opening[u] = "put")
           /\ UNCHANGED <<page, stored, made, states, saved, urls>>
  <2>1. /\ opening' = [u \in Tab |-> opening'[u]]
        /\ \A u \in Tab : opening'[u] = IF u = t THEN "put" ELSE opening[u]
    BY <1>3 DEF RpInv
  <2>2. TabInv(p, "put", saved[t], states)
    BY <1>1, <1>3 DEF TabInv
  <2>3. \A u \in Tab : TabInv(page[u], opening'[u], saved[u], states)
    BY <2>1, <2>2 DEF RpInv
  <2>4. overlapped' \in BOOLEAN
    BY <1>3 DEF RpInv
  <2>5. ~overlapped' => OneKey'
    BY <1>3, <2>1 DEF RpInv, OneKey
  <2>. QED  BY <1>3, <2>1, <2>3, <2>4, <2>5 DEF RpInv
<1>4. CASE /\ opening[t] = "put" /\ made' = made + 1 /\ stored' = made + 1
           /\ HasKey(t, made + 1)
           /\ UNCHANGED <<states, saved, urls, overlapped>>
  <2>. DEFINE k == made + 1
              q == WithKey(p, k)
  <2>1. k \in Nat \ {None} /\ made \in Nat
    BY DEF RpInv, None
  <2>2. page' = [page EXCEPT ![t] = q] /\ opening' = [opening EXCEPT ![t] = "no"]
    BY <1>4 DEF HasKey
  <2>3. stored' = k /\ stored' \in 0..made' /\ made' \in Nat
    BY <1>4, <2>1
  <2>. HIDE DEF k
  <2>4. TabInv(q, "no", saved[t], states) /\ (BoundTo(p, k) => BoundTo(q, k))
    BY <1>1, <1>4, <2>1, WithKeyInv
  <2>. HIDE DEF q
  <2>5. /\ page' = [u \in Tab |-> page'[u]] /\ opening' = [u \in Tab |-> opening'[u]]
        /\ \A u \in Tab : /\ page'[u] = IF u = t THEN q ELSE page[u]
                          /\ opening'[u] = IF u = t THEN "no" ELSE opening[u]
    BY <2>2 DEF RpInv
  <2>6. \A u \in Tab : TabInv(page'[u], opening'[u], saved[u], states)
    BY <2>4, <2>5 DEF RpInv
  <2>7. ASSUME ~overlapped PROVE OneKey'
    <3>1. OneKey /\ stored = None /\ \A u \in Tab \ {t} : opening[u] # "put"
      BY <1>4, <2>7 DEF RpInv, OneKey
    <3>2. \A u \in Tab : BoundTo(page[u], k)
      BY <3>1, NoneBound DEF OneKey
    <3>3. \A u \in Tab : BoundTo(page'[u], stored')
      BY <2>3, <2>4, <2>5, <3>2
    <3>4. \A url \in urls : url.code = NoCode
      BY <3>1 DEF OneKey
    <3>5. \A u \in Tab : opening'[u] # "put"
      BY <2>5, <3>1
    <3>. QED  BY <1>4, <3>3, <3>4, <3>5 DEF OneKey
  <2>. QED  BY <1>4, <2>3, <2>5, <2>6, <2>7 DEF RpInv
<1>5. CASE KeyUnavailable(t) /\ UNCHANGED <<stored, made, states, saved, urls, overlapped>>
  <2>. DEFINE q == IF p.at = "landing" THEN Blank ELSE FailPage(p, "failed")
  <2>1. page' = [page EXCEPT ![t] = q] /\ opening' = [opening EXCEPT ![t] = "no"]
    BY <1>5 DEF KeyUnavailable
  <2>2. CASE p.at = "landing"
    <3>1. TabInv(Blank, "no", saved[t], states) /\ BoundTo(Blank, stored)
      BY <1>1, BlankShown DEF TabInv
    <3>. QED  BY <1>5, <2>1, <2>2, <3>1, OnePageInv
  <2>3. CASE p.at # "landing"
    <3>1. p.at = "callback" /\ p = Callback(p.code, "pending") /\ CallbackInv(p)
      BY <1>1, <1>5, <2>3 DEF KeyUnavailable, TabInv
    <3>2. p.runs = << >> /\ p.refreshToken = NoToken /\ ~p.badge /\ p.key = None
      BY <3>1 DEF Callback
    <3>3. q = FailPage(p, "failed") /\ p \in CallbackPage
      BY <2>3, <3>1 DEF CallbackInv
    <3>. HIDE DEF q
    <3>4. /\ q \in CallbackPage /\ q.runs = << >> /\ q.code = p.code /\ q.key = None
          /\ q.status = "failed" /\ q.refreshToken = NoToken /\ ~q.badge
      BY <3>2, <3>3, FailPageIs
    <3>5. DOMAIN q.runs = {} /\ q.at = "callback" /\ q \in Page
      BY <3>4 DEF CallbackPage, Page
    <3>6. CallbackInv(q)
      BY <3>4, <3>5 DEF CallbackInv, OfCode
    <3>7. TabInv(q, "no", saved[t], states) /\ (BoundTo(p, stored) => BoundTo(q, stored))
      BY <1>1, <3>1, <3>2, <3>4, <3>5, <3>6 DEF TabInv, BoundTo
    <3>. QED  BY <1>1, <1>5, <2>1, <3>7, OnePageInv
  <2>. QED  BY <2>2, <2>3
<1>. QED  BY <1>2, <1>3, <1>4, <1>5 DEF KeyStep, ReadKey, PutKey

LEMMA OpenLandingInv ==
  ASSUME RpInv, NEW t \in Tab, OpenLanding(t)
  PROVE  RpInv'
<1>1. /\ states \in Nat /\ states' = states + 1 /\ states' \in states..MaxState
      /\ saved[t] \in 0..states' /\ states + 1 \in 0..states'
  <2>1. states \in 0..MaxState /\ states < MaxState /\ states' = states + 1
    BY DEF RpInv, OpenLanding
  <2>2. saved[t] \in 0..states
    BY DEF RpInv, TabInv
  <2>. QED  BY <2>1, <2>2, BoundsAssumption
<1>2. UNCHANGED <<stored, made, urls, overlapped>>
  BY DEF OpenLanding
<1>3. saved = [saved EXCEPT ![t] = saved[t]]
  BY DEF RpInv
<1>4. CASE Show(t, Blank, "no") /\ UNCHANGED saved
  <2>1. TabInv(Blank, "no", saved[t], states') /\ BoundTo(Blank, stored)
    BY <1>1, BlankShown
  <2>. QED  BY <1>1, <1>2, <1>3, <1>4, <2>1, OneTabInv DEF Show
<1>5. CASE /\ Show(t, Landing(states + 1, None), "get")
           /\ \/ saved' = [saved EXCEPT ![t] = states + 1]
              \/ UNCHANGED saved
  <2>. DEFINE p == Landing(states + 1, None)
  <2>1. p \in Page /\ p.at = "landing" /\ p.state = states + 1 /\ p.key = None
    BY <1>1 DEF Landing, Page, None
  <2>. HIDE DEF p
  <2>2. \A s \in 0..states' : TabInv(p, "get", s, states')
    BY <1>1, <2>1 DEF TabInv
  <2>3. BoundTo(p, stored)
    BY <2>1 DEF BoundTo
  <2>4. page' = [page EXCEPT ![t] = p] /\ opening' = [opening EXCEPT ![t] = "get"]
    BY <1>5 DEF Show, p
  <2>5. PICK s \in 0..states' : saved' = [saved EXCEPT ![t] = s]
    BY <1>1, <1>3, <1>5
  <2>. QED  BY <1>1, <1>2, <2>2, <2>3, <2>4, <2>5, OneTabInv
<1>. QED  BY <1>4, <1>5 DEF OpenLanding

\* An authorize request that passes carries the state and the key of its landing page.
LEMMA AuthorizeInv ==
  ASSUME RpInv, NEW u \in Tab, NEW t \in Tab, Authorize(u, t)
  PROVE  RpInv'
<1>. DEFINE l == page[u]
<1>1. /\ TabInv(l, opening[u], saved[u], states) /\ l.at = "landing" /\ l.key # None
      /\ ~overlapped => BoundTo(l, stored)
  BY DEF Authorize, RpInv, OneKey
<1>2. l.key \in Nat /\ l.state \in Nat
  BY <1>1 DEF TabInv, Page, Blank
<1>3. PICK q \in {LinkOf(l)} \cup {Without(LinkOf(l), x) : x \in AuthorizeParam} :
        Show(t, IF ValidAuthorize(q) THEN Demo("login", q, NoCode) ELSE Blank, "no")
  BY DEF Authorize
<1>4. saved[t] \in 0..states
  BY DEF RpInv, TabInv
<1>5. ~ValidAuthorize(Without(LinkOf(l), "redirect_uri")) /\ "redirect_uri" \in AuthorizeParam
  BY DEF ValidAuthorize, Without, LinkOf, AuthorizeParam
<1>. DEFINE p == IF ValidAuthorize(q) THEN Demo("login", q, NoCode) ELSE Blank
<1>6. TabInv(p, "no", saved[t], states) /\ (~overlapped => BoundTo(p, stored))
  <2>1. CASE ~ValidAuthorize(q)
    BY <1>4, <2>1, BlankShown
  <2>2. CASE ValidAuthorize(q)
    <3>1. q = LinkOf(l)
      <4>1. ASSUME NEW x \in AuthorizeParam, q = Without(LinkOf(l), x) PROVE FALSE
        <5>1. q.params = AuthorizeParam \ {x}
          BY <4>1 DEF Without, LinkOf
        <5>. QED  BY <2>2, <4>1, <5>1 DEF ValidAuthorize
      <4>. QED  BY <4>1
    <3>2. q \in Query /\ FlowReady(q) /\ q.state = l.state /\ q.jkt = l.key
      BY <1>1, <1>2, <3>1 DEF LinkOf, Query, FlowReady, AuthorizeParam
    <3>3. NoCode \in Code
      BY DEF NoCode, Code, None
    <3>4. p = Demo("login", q, NoCode)
      BY <2>2
    <3>. HIDE DEF p
    <3>5. p \in Page /\ p.at = "demo" /\ p.step = "login" /\ p.query = q
      BY <3>2, <3>3, <3>4 DEF Demo, Page
    <3>6. TabInv(p, "no", saved[t], states)
      BY <1>1, <1>4, <3>2, <3>5 DEF TabInv
    <3>. QED  BY <1>1, <3>2, <3>5, <3>6 DEF BoundTo
  <2>. QED  BY <2>1, <2>2
<1>7. page' = [page EXCEPT ![t] = p] /\ opening' = [opening EXCEPT ![t] = "no"]
  BY <1>3 DEF Show
<1>. HIDE DEF p
<1>. QED  BY <1>6, <1>7, OnePageInv DEF Authorize

LEMMA SignOnInv ==
  ASSUME RpInv, NEW t \in Tab, StartSignOn(t) \/ SignOnSettles(t)
  PROVE  RpInv'
<1>. DEFINE p == page[t]
            q == p.query
            code == [jkt |-> q.jkt, flow |-> q.state]
<1>1. /\ TabInv(p, opening[t], saved[t], states) /\ p.at = "demo"
      /\ ~overlapped => BoundTo(p, stored)
  BY DEF StartSignOn, SignOnSettles, RpInv, OneKey
<1>2. p \in [at : {"demo"}, step : {"login", "signing", "completed"}, query : Query, code : Code]
  BY <1>1 DEF TabInv, Page, Blank
<1>3. opening[t] = "no" /\ q \in Query /\ code \in Code /\ NoCode \in Code
  BY <1>1, <1>2 DEF TabInv, Query, Code, NoCode, None
<1>4. PICK step \in {"login", "signing", "completed"}, c \in Code :
        /\ page' = [page EXCEPT ![t] = Demo(step, q, c)]
        /\ step = "completed" => c = code
  <2>1. CASE StartSignOn(t)
    <3>1. [p EXCEPT !.step = "signing"] = Demo("signing", q, p.code)
      BY <1>2 DEF Demo
    <3>2. page' = [page EXCEPT ![t] = Demo("signing", q, p.code)]
      BY <2>1, <3>1 DEF StartSignOn
    <3>. QED  BY <1>2, <3>2
  <2>2. CASE SignOnSettles(t)
    BY <1>3, <2>2 DEF SignOnSettles
  <2>. QED  BY <2>1, <2>2
<1>. DEFINE d == Demo(step, q, c)
<1>5. d \in Page /\ d.at = "demo" /\ d.step = step /\ d.query = q /\ d.code = c
  BY <1>3 DEF Demo, Page
<1>6. page' = [page EXCEPT ![t] = d]
  BY <1>4
<1>. HIDE DEF d
<1>7. TabInv(d, opening[t], saved[t], states)
  BY <1>1, <1>3, <1>4, <1>5 DEF TabInv
<1>8. ~overlapped => BoundTo(d, stored)
  BY <1>1, <1>5 DEF BoundTo
<1>9. UNCHANGED <<stored, made, states, opening, saved, urls, overlapped>>
  BY DEF StartSignOn, SignOnSettles
<1>. QED  BY <1>3, <1>6, <1>7, <1>8, <1>9, OnePageInv

LEMMA ReturnWithCodeInv ==
  ASSUME RpInv, NEW t \in Tab, ReturnWithCode(t)
  PROVE  RpInv'
<1>. DEFINE p == page[t]
            url == [code |-> p.code, state |-> p.query.state, error |-> FALSE]
<1>1. /\ TabInv(p, opening[t], saved[t], states) /\ p.at = "demo" /\ p.step = "completed"
      /\ ~overlapped => BoundTo(p, stored)
  BY DEF ReturnWithCode, RpInv, OneKey
<1>2. p.query \in Query
  BY <1>1 DEF TabInv, Page, Blank
<1>3. /\ p.code = [jkt |-> p.query.jkt, flow |-> p.query.state]
      /\ p.query.jkt \in Nat /\ p.query.jkt # None /\ p.query.state \in Nat
      /\ p.query.state \in 0..states
  BY <1>1, <1>2 DEF TabInv, Query, FlowReady
<1>4. url.code = p.code /\ url.code \in Code /\ url.code.flow = url.state
        /\ url.code.jkt = p.query.jkt
  BY <1>3 DEF Code
<1>5. UrlInv(url, states)
  BY <1>3, <1>4 DEF UrlInv
<1>6. urls' = urls \cup {url} /\ HandleCallback(t, url)
        /\ UNCHANGED <<stored, made, states, saved, overlapped>>
  BY DEF ReturnWithCode
<1>. HIDE DEF url
<1>7. saved[t] \in 0..states /\ states \in states..MaxState
  BY <1>1, BoundsAssumption DEF TabInv, RpInv
<1>8. PICK q, o : /\ TabInv(q, o, saved[t], states) /\ o \in {"no", "get"}
                  /\ page' = [page EXCEPT ![t] = q] /\ opening' = [opening EXCEPT ![t] = o]
                  /\ \/ q = Blank
                     \/ q.at = "callback" /\ q.code = url.code /\ url.code # NoCode
                          /\ q.key = None
  BY <1>5, <1>6, <1>7, UrlShown
<1>9. ~overlapped => BoundTo(q, stored) /\ url.code.jkt = stored /\ stored # None
  BY <1>1, <1>4, <1>8 DEF BoundTo, Blank
<1>10. saved' = [saved EXCEPT ![t] = saved[t]]
  BY <1>6 DEF RpInv
<1>. QED  BY <1>5, <1>6, <1>7, <1>8, <1>9, <1>10, OneTabInv

LEMMA OpenCallbackInv ==
  ASSUME RpInv, NEW t \in Tab, OpenCallback(t)
  PROVE  RpInv'
<1>1. PICK url \in urls \cup [code : {NoCode}, state : {None}, error : BOOLEAN] :
        HandleCallback(t, url)
  BY DEF OpenCallback
<1>2. /\ saved[t] \in 0..states /\ states \in states..MaxState /\ states \in Nat
      /\ UNCHANGED <<stored, made, states, saved, urls, overlapped>>
  <2>1. saved[t] \in 0..states /\ states \in 0..MaxState
    BY DEF TabInv, RpInv
  <2>. QED  BY <2>1, BoundsAssumption DEF OpenCallback
<1>3. UrlInv(url, states) /\ (~overlapped /\ url.code # NoCode =>
                                url.code.jkt = stored /\ stored # None)
  <2>1. CASE url \in urls
    BY <2>1 DEF RpInv, OneKey
  <2>2. CASE url \in [code : {NoCode}, state : {None}, error : BOOLEAN]
    BY <1>2, <2>2 DEF UrlInv, NoCode, Code, None
  <2>. QED  BY <1>1, <2>1, <2>2
<1>4. PICK q, o : /\ TabInv(q, o, saved[t], states) /\ o \in {"no", "get"}
                  /\ page' = [page EXCEPT ![t] = q] /\ opening' = [opening EXCEPT ![t] = o]
                  /\ \/ q = Blank
                     \/ q.at = "callback" /\ q.code = url.code /\ url.code # NoCode
                          /\ q.key = None
  BY <1>1, <1>2, <1>3, UrlShown
<1>5. ~overlapped => BoundTo(q, stored)
  BY <1>3, <1>4 DEF BoundTo, Blank
<1>6. saved' = [saved EXCEPT ![t] = saved[t]]
  BY <1>2 DEF RpInv
<1>. QED  BY <1>2, <1>4, <1>5, <1>6, OneTabInv

\* What a page becomes when its request goes on or ends; the refresh token it holds stays
\* or is replaced by the next.
LEMMA SettledPage ==
  ASSUME NEW p, CallbackInv(p), NEW i \in DOMAIN p.runs, NEW q,
         q \in IF p.runs[i].stage = "token"
               THEN {FailRun(p, i), FailPage(EndRun(p, i), "error")}
                      \cup IF p.runs[i].credential.jkt = p.key THEN TokenAnswers(p, i) ELSE {}
               ELSE {FailRun(p, i), RenderResult(p, i)}
  PROVE  /\ CallbackInv(q) /\ q.code = p.code /\ q.key = p.key
         /\ \/ q.refreshToken = p.refreshToken
            \/ p.refreshToken = NoToken \/ q.refreshToken = NoToken
            \/ q.refreshToken.gen = p.refreshToken.gen + 1
<1>1. p.runs[i].stage \in {"token", "jwks"}
  BY EndRunIs DEF Run
<1>2. CASE q \in {FailRun(p, i), FailPage(EndRun(p, i), "error")}
  BY <1>2, FailuresInv
<1>3. CASE q \in TokenAnswers(p, i)
  BY <1>3, AnswersInv
<1>4. CASE q = RenderResult(p, i) /\ p.runs[i].stage = "jwks"
  BY <1>4, RenderInv
<1>. QED  BY <1>1, <1>2, <1>3, <1>4

\* A request under way, or the click that begins one: what the page was and becomes.
LEMMA RunningPage ==
  ASSUME RpInv, NEW t \in Tab, RunSettles(t) \/ ClickRefresh(t)
  PROVE  /\ CallbackInv(page[t]) /\ page[t].at = "callback" /\ opening[t] = "no"
         /\ page[t].key # None
         /\ \E q : /\ page' = [page EXCEPT ![t] = q] /\ page'[t] = q
                   /\ CallbackInv(q) /\ q.code = page[t].code /\ q.key = page[t].key
                   /\ \/ q.refreshToken = page[t].refreshToken
                      \/ page[t].refreshToken = NoToken \/ q.refreshToken = NoToken
                      \/ q.refreshToken.gen = page[t].refreshToken.gen + 1
<1>. DEFINE p == page[t]
<1>1. TabInv(p, opening[t], saved[t], states) /\ p.at = "callback"
  BY DEF RunSettles, ClickRefresh, RpInv
<1>2. CallbackInv(p)
  BY <1>1 DEF TabInv
<1>3. \A q : page' = [page EXCEPT ![t] = q] => page'[t] = q
  BY DEF RpInv
<1>4. CASE RunSettles(t)
  <2>. DEFINE Next(i) ==
                IF p.runs[i].stage = "token"
                THEN {FailRun(p, i), FailPage(EndRun(p, i), "error")}
                       \cup IF p.runs[i].credential.jkt = p.key THEN TokenAnswers(p, i) ELSE {}
                ELSE {FailRun(p, i), RenderResult(p, i)}
  <2>1. PICK i \in DOMAIN p.runs : \E q \in Next(i) : page' = [page EXCEPT ![t] = q]
    BY <1>4 DEF RunSettles
  <2>2. p.key # None /\ p.runs # << >>
    BY <1>2, EndRunIs
  <2>3. opening[t] = "no"
    BY <1>1, <2>2 DEF TabInv, Callback
  <2>4. PICK q \in Next(i) : page' = [page EXCEPT ![t] = q]
    BY <2>1
  <2>5. /\ CallbackInv(q) /\ q.code = p.code /\ q.key = p.key
        /\ \/ q.refreshToken = p.refreshToken
           \/ p.refreshToken = NoToken \/ q.refreshToken = NoToken
           \/ q.refreshToken.gen = p.refreshToken.gen + 1
    BY <1>2, SettledPage
  <2>. HIDE DEF Next
  <2>. QED  BY <1>1, <1>2, <1>3, <2>2, <2>3, <2>4, <2>5
<1>5. CASE ClickRefresh(t)
  <2>1. /\ p.button /\ p.refreshToken # NoToken
        /\ page' = [page EXCEPT ![t] = Exchange(p, p.refreshToken)]
    BY <1>5 DEF ClickRefresh
  <2>2. /\ p.runs = << >> /\ p.key # None /\ p.refreshToken \in Credential
        /\ p.refreshToken.flow = p.code.flow
    BY <1>2, <2>1 DEF CallbackInv, CallbackPage, OfCode
  <2>3. opening[t] = "no"
    BY <1>1, <2>1 DEF TabInv, Callback
  <2>. DEFINE q == Exchange(p, p.refreshToken)
  <2>4. CallbackInv(q) /\ q.code = p.code /\ q.key = p.key /\ q.refreshToken = p.refreshToken
    BY <1>2, <2>2, ExchangeInv
  <2>. HIDE DEF q
  <2>. QED  BY <1>1, <1>2, <1>3, <2>1, <2>2, <2>3, <2>4 DEF q
<1>. QED  BY <1>4, <1>5

LEMMA RunningInv ==
  ASSUME RpInv, NEW t \in Tab, RunSettles(t) \/ ClickRefresh(t)
  PROVE  RpInv'
<1>. DEFINE p == page[t]
<1>1. PICK q : /\ page' = [page EXCEPT ![t] = q]
               /\ CallbackInv(q) /\ q.code = p.code /\ q.key = p.key
  BY RunningPage
<1>2. p.at = "callback" /\ opening[t] = "no" /\ p.key # None
  BY RunningPage
<1>3. TabInv(p, opening[t], saved[t], states) /\ (~overlapped => BoundTo(p, stored))
  BY DEF RpInv, OneKey
<1>4. q \in Page /\ q.at = "callback"
  BY <1>1 DEF CallbackInv, CallbackPage, Page
<1>5. TabInv(q, opening[t], saved[t], states)
  BY <1>1, <1>2, <1>3, <1>4 DEF TabInv
<1>6. ~overlapped => BoundTo(q, stored)
  BY <1>1, <1>2, <1>3, <1>4 DEF BoundTo
<1>7. UNCHANGED <<stored, made, states, opening, saved, urls, overlapped>>
  BY DEF RunSettles, ClickRefresh
<1>. QED  BY <1>1, <1>2, <1>5, <1>6, <1>7, OnePageInv

LEMMA RpInitInv == RpInit => RpInv
<1>. SUFFICES ASSUME RpInit PROVE RpInv
  OBVIOUS
<1>1. \A t \in Tab : page[t] = Blank /\ opening[t] = "no" /\ saved[t] = 0
  BY DEF RpInit, None
<1>2. 0 \in 0..states /\ states \in 0..MaxState /\ stored \in 0..made /\ made \in Nat
  BY BoundsAssumption DEF RpInit, None
<1>3. \A t \in Tab : TabInv(page[t], opening[t], saved[t], states) /\ BoundTo(page[t], stored)
  BY <1>1, <1>2, BlankShown
<1>. QED  BY <1>1, <1>2, <1>3 DEF RpInv, RpInit, OneKey

LEMMA RpNextInv == RpInv /\ [RpNext]_rpVars => RpInv'
<1>. SUFFICES ASSUME RpInv, [RpNext]_rpVars
              PROVE  RpInv'
  OBVIOUS
<1>1. CASE RpNext
  <2>1. PICK t \in Tab : \/ Navigate(t) \/ KeyStep(t) \/ StartSignOn(t)
                         \/ SignOnSettles(t) \/ RunSettles(t) \/ ClickRefresh(t)
    BY <1>1 DEF RpNext
  <2>2. CASE Navigate(t)
    BY <2>2, OpenLandingInv, AuthorizeInv, ReturnWithCodeInv, OpenCallbackInv DEF Navigate
  <2>3. CASE KeyStep(t)
    BY <2>3, KeyStepInv
  <2>4. CASE StartSignOn(t) \/ SignOnSettles(t)
    BY <2>4, SignOnInv
  <2>5. CASE RunSettles(t) \/ ClickRefresh(t)
    BY <2>5, RunningInv
  <2>. QED  BY <2>1, <2>2, <2>3, <2>4, <2>5
<1>2. CASE UNCHANGED rpVars
  BY <1>2 DEF rpVars, RpInv, OneKey
<1>. QED  BY <1>1, <1>2

\* The invariant: what each page holds stems from its code, a page with a key is of the
\* sign-on its tab began, and everything is bound to the one key there is.
THEOREM RpInvariant == RpSpec => []RpInv
  BY RpInitInv, RpNextInv, PTL DEF RpSpec

-------------------------------------------------------------------------------
(***************************************************************************)
(* What follows for every behaviour.                                       *)
(***************************************************************************)

LEMMA OnCallbackInv ==
  ASSUME RpInv, NEW t \in Tab, OnCallback(t)
  PROVE  /\ CallbackInv(page[t]) /\ TabInv(page[t], opening[t], saved[t], states)
         /\ ~overlapped => BoundTo(page[t], stored)
  BY DEF RpInv, TabInv, OnCallback, OneKey

LEMMA InvSigned == RpInv => SignedInHere /\ BadgeForVerified
<1>1. ASSUME RpInv, NEW t \in Tab, OnCallback(t), page[t].status = "ok"
      PROVE  VerifyAccessToken(page[t].shown, page[t].key) /\ page[t].shown.flow = saved[t]
  <2>1. CallbackInv(page[t]) /\ TabInv(page[t], opening[t], saved[t], states)
    BY <1>1, OnCallbackInv
  <2>. QED  BY <1>1, <2>1 DEF CallbackInv, TabInv, OnCallback
<1>2. ASSUME RpInv, NEW t \in Tab, OnCallback(t), page[t].badge
      PROVE  page[t].shown.flaw = "none" /\ page[t].shown.jkt = page[t].key
  BY <1>2, OnCallbackInv DEF CallbackInv, VerifyAccessToken
<1>. QED  BY <1>1, <1>2 DEF SignedInHere, BadgeForVerified

LEMMA InvRuns == RpInv => OneRunAtATime /\ HeldTokenUsable
<1>1. ASSUME RpInv, NEW t \in Tab, OnCallback(t)
      PROVE  /\ Len(page[t].runs) <= 1
             /\ page[t].runs # << >> => ~page[t].button
             /\ page[t].refreshToken # NoToken /\ page[t].runs = << >> =>
                  page[t].button \/ page[t].status = "error"
  <2>1. CallbackInv(page[t])
    BY <1>1, OnCallbackInv
  <2>2. CASE page[t].runs = << >>
    <3>1. page[t].refreshToken # NoToken => page[t].button \/ page[t].status = "error"
      BY <2>1, <2>2 DEF CallbackInv
    <3>2. Len(page[t].runs) = 0
      BY <2>2
    <3>. QED  BY <2>2, <3>1, <3>2
  <2>3. CASE page[t].runs # << >>
    <3>1. Len(page[t].runs) = 1 /\ ~page[t].button
      BY <2>1, <2>3 DEF CallbackInv
    <3>. QED  BY <2>3, <3>1
  <2>. QED  BY <2>2, <2>3
<1>. QED  BY <1>1 DEF OneRunAtATime, HeldTokenUsable

LEMMA InvHandedOver == RpInv => HandedOverReady
  BY DEF RpInv, TabInv, HandedOverReady

\* For any number of tabs, sign-ons and rotations: a page has one token request at most.
THEOREM OneRunAlways == RpSpec => []OneRunAtATime
<1>1. RpInv => OneRunAtATime
  BY InvRuns
<1>. QED  BY <1>1, RpInvariant, PTL

\* A page says it is signed in only with a verified token of the sign-on its tab began.
THEOREM SignedInHereAlways == RpSpec => []SignedInHere
<1>1. RpInv => SignedInHere
  BY InvSigned
<1>. QED  BY <1>1, RpInvariant, PTL

\* The badge stands beside a verified token only.
THEOREM BadgeAlways == RpSpec => []BadgeForVerified
<1>1. RpInv => BadgeForVerified
  BY InvSigned
<1>. QED  BY <1>1, RpInvariant, PTL

\* A refresh token the page holds can be used, but for the exceptions of the property.
THEOREM HeldTokenUsableAlways == RpSpec => []HeldTokenUsable
<1>1. RpInv => HeldTokenUsable
  BY InvRuns
<1>. QED  BY <1>1, RpInvariant, PTL

\* Whatever /authorize lets through, the demo page can sign on with.
THEOREM HandedOverReadyAlways == RpSpec => []HandedOverReady
<1>1. RpInv => HandedOverReady
  BY InvHandedOver
<1>. QED  BY <1>1, RpInvariant, PTL

LEMMA InvType == RpInv => RpTypeOK
<1>. SUFFICES ASSUME RpInv PROVE RpTypeOK
  OBVIOUS
<1>1. \A t \in Tab : page[t] \in Page /\ opening[t] \in {"no", "get", "put"}
                       /\ saved[t] \in 0..states
  BY DEF RpInv, TabInv
<1>2. urls \subseteq [code : Code, state : 0..states, error : BOOLEAN]
  BY DEF RpInv, UrlInv
<1>. QED  BY <1>1, <1>2 DEF RpInv, RpTypeOK

\* Type correctness.
THEOREM RpTypeCorrect == RpSpec => []RpTypeOK
<1>1. RpInv => RpTypeOK
  BY InvType
<1>. QED  BY <1>1, RpInvariant, PTL

\* A tab that shows another page, or the same one again, holds no refresh token yet.
LEMMA NavigateForgets ==
  ASSUME RpInv, NEW t \in Tab, Navigate(t), OnCallback(t)'
  PROVE  page'[t].refreshToken = NoToken
<1>1. \A q : page' = [page EXCEPT ![t] = q] => page'[t] = q
  BY DEF RpInv
<1>2. CASE OpenLanding(t)
  BY <1>1, <1>2 DEF OpenLanding, Show, Landing, Blank, OnCallback
<1>3. CASE \E u \in Tab : Authorize(u, t)
  <2>1. PICK q : page' = [page EXCEPT ![t] = IF ValidAuthorize(q) THEN Demo("login", q, NoCode)
                                             ELSE Blank]
    BY <1>3 DEF Authorize, Show
  <2>2. page'[t].at \in {"demo", "blank"}
    BY <1>1, <2>1 DEF Demo, Blank
  <2>. QED  BY <2>2 DEF OnCallback
<1>4. ASSUME NEW url, HandleCallback(t, url)
      PROVE  page'[t].refreshToken = NoToken
  <2>1. CASE page' = [page EXCEPT ![t] = Blank]
    <3>1. page'[t].at = "blank"
      BY <1>1, <2>1 DEF Blank
    <3>. QED  BY <3>1 DEF OnCallback
  <2>2. ASSUME NEW status, page' = [page EXCEPT ![t] = Callback(url.code, status)]
        PROVE  page'[t].refreshToken = NoToken
    <3>1. page'[t] = Callback(url.code, status)
      BY <1>1, <2>2
    <3>. QED  BY <3>1 DEF Callback
  <2>. QED  BY <1>4, <2>1, <2>2 DEF HandleCallback, Show
<1>5. CASE ReturnWithCode(t)
  BY <1>4, <1>5 DEF ReturnWithCode
<1>6. CASE OpenCallback(t)
  BY <1>4, <1>6 DEF OpenCallback
<1>. QED  BY <1>2, <1>3, <1>5, <1>6 DEF Navigate

\* A tab goes on by itself.
LEMMA OtherTabs ==
  ASSUME RpInv, NEW t \in Tab, NEW u \in Tab \ {t},
         \/ Navigate(t) \/ KeyStep(t) \/ StartSignOn(t)
         \/ SignOnSettles(t) \/ RunSettles(t) \/ ClickRefresh(t)
  PROVE  page'[u] = page[u]
<1>1. \A q : page' = [page EXCEPT ![t] = q] => page'[u] = page[u]
  BY DEF RpInv
<1>2. CASE Navigate(t)
  <2>1. \E q, o : Show(t, q, o)
    BY <1>2 DEF Navigate, OpenLanding, Authorize, ReturnWithCode, OpenCallback, HandleCallback
  <2>. QED  BY <1>1, <2>1 DEF Show
<1>3. CASE KeyStep(t)
  BY <1>1, <1>3 DEF KeyStep, ReadKey, PutKey, KeyUnavailable, HasKey
<1>4. CASE StartSignOn(t) \/ SignOnSettles(t)
  BY <1>1, <1>4 DEF StartSignOn, SignOnSettles
<1>5. CASE RunSettles(t) \/ ClickRefresh(t)
  BY <1>1, <1>5, RunningPage
<1>. QED  BY <1>2, <1>3, <1>4, <1>5

LEMMA StepRotates ==
  ASSUME RpInv, RpInv', RpNext, NEW t \in Tab, OnCallback(t), OnCallback(t)',
         page[t].refreshToken # NoToken, page'[t].refreshToken # NoToken,
         page'[t].refreshToken # page[t].refreshToken
  PROVE  page'[t].refreshToken.gen > page[t].refreshToken.gen
<1>1. PICK u \in Tab : \/ Navigate(u) \/ KeyStep(u) \/ StartSignOn(u)
                       \/ SignOnSettles(u) \/ RunSettles(u) \/ ClickRefresh(u)
  BY DEF RpNext
<1>2. u = t
  BY <1>1, OtherTabs
<1>3. CASE Navigate(t)
  BY <1>3, NavigateForgets
<1>4. CASE KeyStep(t)
  <2>1. opening[t] # "no"
    BY <1>4 DEF KeyStep, ReadKey, PutKey, KeyUnavailable
  <2>2. page[t] = Callback(page[t].code, "pending")
    BY <2>1, OnCallbackInv DEF TabInv, OnCallback
  <2>. QED  BY <2>2 DEF Callback
<1>5. CASE StartSignOn(t) \/ SignOnSettles(t)
  BY <1>5 DEF StartSignOn, SignOnSettles, OnCallback
<1>6. CASE RunSettles(t) \/ ClickRefresh(t)
  <2>1. page'[t].refreshToken.gen = page[t].refreshToken.gen + 1
    BY <1>6, RunningPage
  <2>2. page[t].refreshToken \in Credential
    BY OnCallbackInv DEF CallbackInv, CallbackPage
  <2>3. page[t].refreshToken.gen \in Nat
    BY <2>2 DEF Credential
  <2>. QED  BY <2>1, <2>3
<1>. QED  BY <1>1, <1>2, <1>3, <1>4, <1>5, <1>6

\* While a page stays, its refresh token is only replaced by a later one.
THEOREM RotatesForwardAlways == RpSpec => RotatesForward
<1>. DEFINE Rotates == \A t \in Tab : OnCallback(t) /\ OnCallback(t)' =>
              LET old == page[t].refreshToken
                  new == page'[t].refreshToken
              IN old # NoToken /\ new # NoToken /\ new # old => new.gen > old.gen
<1>1. RpInv /\ RpInv' /\ [RpNext]_rpVars => [Rotates]_rpVars
  <2>. SUFFICES ASSUME RpInv, RpInv', RpNext PROVE Rotates
    OBVIOUS
  <2>. QED  BY StepRotates
<1>. QED  BY <1>1, RpInvariant, PTL DEF RpSpec, RotatesForward

-------------------------------------------------------------------------------
(***************************************************************************)
(* The order of the keys.  Which key a page gets is a race once two tabs   *)
(* found the store empty; but every key put replaces all earlier ones, so  *)
(* what a page is given is never older than the code it exchanges.         *)
(***************************************************************************)

InOrder(p, k) ==
  /\ p.at = "landing" => p.key \in 0..k
  /\ p.at = "demo" => p.query.jkt \in 0..k
  /\ p.at = "callback" => p.code.jkt \in 0..k /\ p.key \in {None} \cup p.code.jkt..k

\* The store holds the last key made; nothing in use is newer.
KeyOrder ==
  /\ stored = made
  /\ \A t \in Tab : InOrder(page[t], made)
  /\ \A url \in urls : url.code.jkt \in 0..made

LEMMA BlankInOrder == ASSUME NEW k PROVE InOrder(Blank, k)
  BY DEF InOrder, Blank

LEMMA LaterInOrder ==
  ASSUME NEW p, NEW k \in Nat, InOrder(p, k)
  PROVE  InOrder(p, k + 1)
<1>1. ASSUME NEW x \in 0..k PROVE x \in 0..(k + 1) /\ x..k \subseteq x..(k + 1)
  BY <1>1
<1>2. CASE p.at = "landing"
  BY <1>1, <1>2 DEF InOrder
<1>3. CASE p.at = "demo"
  BY <1>1, <1>3 DEF InOrder
<1>4. CASE p.at = "callback"
  BY <1>1, <1>4 DEF InOrder
<1>5. CASE p.at \notin {"landing", "demo", "callback"}
  BY <1>5 DEF InOrder
<1>. QED  BY <1>2, <1>3, <1>4, <1>5

\* One tab goes on without a key being made.
LEMMA OrderKept ==
  ASSUME RpInv, KeyOrder, NEW t \in Tab, NEW p,
         page' = [page EXCEPT ![t] = p], InOrder(p, made), UNCHANGED <<stored, made>>,
         \A url \in urls' \ urls : url.code.jkt \in 0..made
  PROVE  KeyOrder'
<1>1. \A u \in Tab : page'[u] = IF u = t THEN p ELSE page[u]
  BY DEF RpInv
<1>2. \A u \in Tab : InOrder(page'[u], made)
  BY <1>1 DEF KeyOrder
<1>3. \A url \in urls' : url.code.jkt \in 0..made
  BY DEF KeyOrder
<1>. QED  BY <1>2, <1>3 DEF KeyOrder

\* A page that gets the newest key.
LEMMA WithKeyInOrder ==
  ASSUME NEW p, NEW o, NEW s, NEW n, TabInv(p, o, s, n), o # "no",
         NEW k \in Nat \ {None}, InOrder(p, k)
  PROVE  InOrder(WithKey(p, k), k)
<1>. DEFINE q == WithKey(p, k)
<1>1. q.at = p.at /\ q.key = k /\ (p.at = "callback" => q.code = p.code)
  BY WithKeyInv
<1>2. p.at \in {"landing", "callback"}
  BY DEF TabInv
<1>. HIDE DEF q
<1>3. CASE p.at = "landing"
  BY <1>1, <1>3 DEF InOrder, q
<1>4. CASE p.at = "callback"
  <2>1. p.code.jkt \in 0..k /\ q.code = p.code /\ q.at = "callback"
    BY <1>1, <1>4 DEF InOrder
  <2>2. q.key \in p.code.jkt..k
    BY <1>1, <2>1
  <2>. QED  BY <2>1, <2>2 DEF InOrder, q
<1>. QED  BY <1>2, <1>3, <1>4

LEMMA KeyStepOrder ==
  ASSUME RpInv, KeyOrder, NEW t \in Tab, KeyStep(t)
  PROVE  KeyOrder'
<1>. DEFINE p == page[t]
<1>1. TabInv(p, opening[t], saved[t], states) /\ InOrder(p, made) /\ made \in Nat
  BY DEF RpInv, KeyOrder
<1>2. CASE ReadKey(t) /\ UNCHANGED <<stored, made, states, saved, urls>>
  <2>1. CASE stored # None /\ HasKey(t, stored)
    <3>1. stored = made /\ made \in Nat \ {None}
      BY <1>1, <2>1 DEF KeyOrder
    <3>2. InOrder(WithKey(p, made), made)
      BY <1>1, <1>2, <3>1, WithKeyInOrder DEF ReadKey
    <3>3. page' = [page EXCEPT ![t] = WithKey(p, made)]
      BY <2>1, <3>1 DEF HasKey
    <3>. QED  BY <1>2, <3>2, <3>3, OrderKept
  <2>2. CASE UNCHANGED page
    BY <1>2, <2>2 DEF KeyOrder
  <2>. QED  BY <1>2, <2>1, <2>2 DEF ReadKey
<1>3. CASE PutKey(t) /\ UNCHANGED <<states, saved, urls, overlapped>>
  <2>. DEFINE k == made + 1
              q == WithKey(p, k)
  <2>1. k \in Nat \ {None}
    BY <1>1 DEF None
  <2>2. \A u \in Tab : InOrder(page[u], k)
    BY <1>1, LaterInOrder DEF KeyOrder
  <2>3. \A url \in urls : url.code.jkt \in 0..k
    BY <1>1 DEF KeyOrder
  <2>4. made' = k /\ stored' = k /\ urls' = urls /\ page' = [page EXCEPT ![t] = q]
    BY <1>3 DEF PutKey, HasKey
  <2>. HIDE DEF k
  <2>5. InOrder(q, k)
    BY <1>1, <1>3, <2>1, <2>2, WithKeyInOrder DEF PutKey
  <2>. HIDE DEF q
  <2>6. \A u \in Tab : page'[u] = IF u = t THEN q ELSE page[u]
    BY <2>4 DEF RpInv
  <2>. QED  BY <2>2, <2>3, <2>4, <2>5, <2>6 DEF KeyOrder
<1>4. CASE KeyUnavailable(t) /\ UNCHANGED <<stored, made, states, saved, urls, overlapped>>
  <2>. DEFINE q == IF p.at = "landing" THEN Blank ELSE FailPage(p, "failed")
  <2>1. page' = [page EXCEPT ![t] = q]
    BY <1>4 DEF KeyUnavailable
  <2>2. InOrder(q, made)
    <3>1. CASE p.at = "landing"
      BY <3>1, BlankInOrder
    <3>2. CASE p.at # "landing"
      <4>1. p.at = "callback" /\ p \in CallbackPage
        BY <1>1, <1>4, <3>2 DEF KeyUnavailable, TabInv, CallbackInv
      <4>2. q.at = "callback" /\ q.code = p.code /\ q.key = p.key
        BY <3>2, <4>1 DEF FailPage, CallbackPage
      <4>. QED  BY <1>1, <4>1, <4>2 DEF InOrder
    <3>. QED  BY <3>1, <3>2
  <2>. QED  BY <1>4, <2>1, <2>2, OrderKept
<1>. QED  BY <1>2, <1>3, <1>4 DEF KeyStep

\* A callback address opened: its code is as old as the address.
LEMMA AddressOrder ==
  ASSUME RpInv, KeyOrder, NEW t \in Tab, NEW url, url.code.jkt \in 0..made,
         HandleCallback(t, url), UNCHANGED <<stored, made>>,
         \A other \in urls' \ urls : other = url
  PROVE  KeyOrder'
<1>1. PICK p : /\ page' = [page EXCEPT ![t] = p]
               /\ \/ p = Blank
                  \/ p.at = "callback" /\ p.code = url.code /\ p.key = None
  BY DEF HandleCallback, Show, Callback
<1>2. InOrder(p, made)
  BY <1>1, BlankInOrder DEF InOrder
<1>. QED  BY <1>1, <1>2, OrderKept

LEMMA NavigateOrder ==
  ASSUME RpInv, KeyOrder, NEW t \in Tab, Navigate(t)
  PROVE  KeyOrder'
<1>1. made \in Nat /\ 0 \in 0..made
  BY DEF RpInv
<1>2. CASE OpenLanding(t)
  <2>1. PICK p : /\ page' = [page EXCEPT ![t] = p]
                 /\ p = Blank \/ (p.at = "landing" /\ p.key = 0)
    BY <1>2 DEF OpenLanding, Show, Landing, None
  <2>2. InOrder(p, made)
    BY <1>1, <2>1, BlankInOrder DEF InOrder
  <2>. QED  BY <1>2, <2>1, <2>2, OrderKept DEF OpenLanding
<1>3. ASSUME NEW u \in Tab, Authorize(u, t) PROVE KeyOrder'
  <2>1. page[u].key \in 0..made
    BY <1>3 DEF Authorize, KeyOrder, InOrder
  <2>2. PICK q \in {LinkOf(page[u])} \cup {Without(LinkOf(page[u]), x) : x \in AuthorizeParam} :
          page' = [page EXCEPT ![t] = IF ValidAuthorize(q) THEN Demo("login", q, NoCode)
                                      ELSE Blank]
    BY <1>3 DEF Authorize, Show
  <2>3. q.jkt \in 0..made
    <3>1. LinkOf(page[u]).jkt = page[u].key
      BY DEF LinkOf
    <3>2. \A x : Without(LinkOf(page[u]), x).jkt \in {page[u].key, None}
      BY DEF LinkOf, Without
    <3>. QED  BY <1>1, <2>1, <2>2, <3>1, <3>2 DEF None
  <2>4. InOrder(Demo("login", q, NoCode), made)
    BY <2>3 DEF InOrder, Demo
  <2>. QED  BY <1>3, <2>2, <2>4, BlankInOrder, OrderKept DEF Authorize
<1>4. CASE ReturnWithCode(t)
  <2>. DEFINE p == page[t]
              url == [code |-> p.code, state |-> p.query.state, error |-> FALSE]
  <2>1. p.code.jkt \in 0..made
    <3>1. p.at = "demo" /\ p.step = "completed" /\ TabInv(p, opening[t], saved[t], states)
      BY <1>4 DEF ReturnWithCode, RpInv
    <3>2. p.code.jkt = p.query.jkt
      BY <3>1 DEF TabInv
    <3>. QED  BY <3>1, <3>2 DEF KeyOrder, InOrder
  <2>2. url.code.jkt \in 0..made /\ HandleCallback(t, url) /\ urls' = urls \cup {url}
        /\ UNCHANGED <<stored, made>>
    BY <1>4, <2>1 DEF ReturnWithCode
  <2>. HIDE DEF url
  <2>. QED  BY <2>2, AddressOrder
<1>5. CASE OpenCallback(t)
  <2>1. PICK url \in urls \cup [code : {NoCode}, state : {None}, error : BOOLEAN] :
          HandleCallback(t, url)
    BY <1>5 DEF OpenCallback
  <2>2. url.code.jkt \in 0..made
    BY <1>1, <2>1 DEF KeyOrder, NoCode, None
  <2>. QED  BY <1>5, <2>1, <2>2, AddressOrder DEF OpenCallback
<1>. QED  BY <1>2, <1>3, <1>4, <1>5 DEF Navigate

LEMMA PageOrder ==
  ASSUME RpInv, KeyOrder, NEW t \in Tab,
         StartSignOn(t) \/ SignOnSettles(t) \/ RunSettles(t) \/ ClickRefresh(t)
  PROVE  KeyOrder'
<1>. DEFINE p == page[t]
<1>1. InOrder(p, made) /\ TabInv(p, opening[t], saved[t], states)
  BY DEF KeyOrder, RpInv
<1>2. CASE StartSignOn(t) \/ SignOnSettles(t)
  <2>1. p.at = "demo" /\ p.query.jkt \in 0..made
    BY <1>1, <1>2 DEF StartSignOn, SignOnSettles, InOrder
  <2>2. p \in [at : {"demo"}, step : {"login", "signing", "completed"}, query : Query, code : Code]
    BY <1>1, <2>1 DEF TabInv, Page, Blank
  <2>3. PICK q : page' = [page EXCEPT ![t] = q] /\ q.at = "demo" /\ q.query = p.query
    <3>1. CASE StartSignOn(t)
      <4>. DEFINE d == [p EXCEPT !.step = "signing"]
      <4>1. d.at = "demo" /\ d.query = p.query
        BY <2>2
      <4>2. page' = [page EXCEPT ![t] = d]
        BY <3>1 DEF StartSignOn
      <4>. HIDE DEF d
      <4>. QED  BY <4>1, <4>2
    <3>2. CASE SignOnSettles(t)
      BY <3>2 DEF SignOnSettles, Demo
    <3>. QED  BY <1>2, <3>1, <3>2
  <2>4. InOrder(q, made)
    BY <2>1, <2>3 DEF InOrder
  <2>. QED  BY <1>2, <2>3, <2>4, OrderKept DEF StartSignOn, SignOnSettles
<1>3. CASE RunSettles(t) \/ ClickRefresh(t)
  <2>1. PICK q : /\ page' = [page EXCEPT ![t] = q]
                 /\ CallbackInv(q) /\ q.code = p.code /\ q.key = p.key
    BY <1>3, RunningPage
  <2>2. p.at = "callback" /\ q.at = "callback"
    BY <1>3, <2>1, RunningPage DEF CallbackInv, CallbackPage
  <2>3. InOrder(q, made)
    BY <1>1, <2>1, <2>2 DEF InOrder
  <2>. QED  BY <1>3, <2>1, <2>3, OrderKept DEF RunSettles, ClickRefresh
<1>. QED  BY <1>2, <1>3

LEMMA KeyOrderInit == RpInit => KeyOrder
  BY BlankInOrder DEF RpInit, KeyOrder, None

LEMMA KeyOrderNext == RpInv /\ KeyOrder /\ [RpNext]_rpVars => KeyOrder'
<1>. SUFFICES ASSUME RpInv, KeyOrder, [RpNext]_rpVars
              PROVE  KeyOrder'
  OBVIOUS
<1>1. CASE RpNext
  BY <1>1, NavigateOrder, KeyStepOrder, PageOrder DEF RpNext
<1>2. CASE UNCHANGED rpVars
  BY <1>2 DEF rpVars, KeyOrder
<1>. QED  BY <1>1, <1>2

LEMMA InvKey == RpInv /\ KeyOrder => CodeMeetsItsKey
<1>. SUFFICES ASSUME RpInv, KeyOrder, NEW t \in Tab, OnCallback(t), page[t].key # None
              PROVE  \/ page[t].key = page[t].code.jkt
                     \/ overlapped /\ page[t].key > page[t].code.jkt
  BY DEF CodeMeetsItsKey
<1>1. CASE ~overlapped
  BY <1>1, OnCallbackInv DEF BoundTo, OnCallback
<1>2. CASE overlapped
  <2>1. page[t].code.jkt \in 0..made /\ page[t].key \in page[t].code.jkt..made
    BY DEF KeyOrder, InOrder, OnCallback
  <2>. QED  BY <1>2, <2>1
<1>. QED  BY <1>1, <1>2 DEF RpInv

\* A code is exchanged with the key it was bound to or, if two tabs found the store empty
\* at once, with a later one that replaced it: never with an earlier one.
THEOREM CodeMeetsItsKeyAlways == RpSpec => []CodeMeetsItsKey
<1>1. RpSpec => []KeyOrder
  BY KeyOrderInit, KeyOrderNext, RpInvariant, PTL DEF RpSpec
<1>. QED  BY <1>1, InvKey, RpInvariant, PTL
===============================================================================
