----------------------------- MODULE RelyingParty -----------------------------
(***************************************************************************)
(* The relying party as a browser runs it.  Its server keeps nothing: it   *)
(* draws a state, serves two pages and never sees a token.  The landing    *)
(* page prepares the origin's DPoP key and arms the login link, the        *)
(* gateway hands the sign-on to the demo page, and the callback page       *)
(* exchanges the code, verifies what it gets and refreshes it.             *)
(*                                                                         *)
(* Tabs of one browser share the key (IndexedDB) and nothing else: each    *)
(* has its own sessionStorage.  Links may be opened in another tab, and    *)
(* callback addresses again, in any tab, out of order.  Keys and states    *)
(* are numbered in the order they are drawn; 0 is none.                    *)
(***************************************************************************)
EXTENDS Naturals, Sequences, SequencesExt

CONSTANTS
  Tab,
  MaxState,      \* how many landing pages are served
  MaxRotations,  \* how often a refresh token is rotated
  Flaw           \* checks an access token may fail, the key binding apart

ASSUME BoundsAssumption == MaxState \in Nat /\ MaxRotations \in Nat

None == 0

VARIABLES
  stored,     \* the key in IndexedDB
  made,       \* how many keys were generated
  states,     \* how many states were drawn
  opening,    \* per tab: how far ensureKeyPair has come
  saved,      \* per tab: the state in sessionStorage
  page,       \* per tab: the page it shows
  urls,       \* callback addresses sign-ons have led to
  overlapped  \* history: two tabs found no key at the same time

rpVars == <<stored, made, states, opening, saved, page, urls, overlapped>>

AuthorizeParam == {"client_id", "redirect_uri", "response_type", "scope", "dpop_jkt"}

\* A code is the assertion: bound to a key, and made in the sign-on begun with a state.
Code == [jkt : Nat, flow : Nat]
NoCode == [jkt |-> None, flow |-> None]

\* A credential for /token: the code is generation 0, refresh tokens follow.
Credential == [jkt : Nat, flow : Nat, gen : Nat]
NoToken == [jkt |-> None, flow |-> None, gen |-> 0]

\* What an access token's checks come to: the first it fails, if any.
AccessToken == [jkt : Nat, flow : Nat, flaw : Flaw \cup {"none"}]
NoAccess == [jkt |-> None, flow |-> None, flaw |-> "none"]

Run == [stage : {"token", "jwks"}, credential : Credential,
        at : AccessToken, rt : Credential]

Blank == [at |-> "blank"]
Landing(s, k) == [at |-> "landing", state |-> s, key |-> k]
Demo(step, q, code) == [at |-> "demo", step |-> step, query |-> q, code |-> code]
Callback(c, status) ==
  [at |-> "callback", code |-> c, status |-> status, key |-> None, runs |-> << >>,
   refreshToken |-> NoToken, button |-> FALSE, shown |-> NoAccess, badge |-> FALSE]

Query == [params : SUBSET AuthorizeParam, state : Nat, jkt : Nat]

Page ==
  {Blank}
    \cup [at : {"landing"}, state : Nat, key : Nat]
    \cup [at : {"demo"}, step : {"login", "signing", "completed"}, query : Query, code : Code]
    \cup [at : {"callback"}, code : Code, status : {"pending", "ok", "failed", "error"},
          key : Nat, runs : Seq(Run), refreshToken : Credential, button : BOOLEAN,
          shown : AccessToken, badge : BOOLEAN]

RpTypeOK ==
  /\ stored \in 0..made
  /\ made \in Nat
  /\ states \in 0..MaxState
  /\ opening \in [Tab -> {"no", "get", "put"}]
  /\ saved \in [Tab -> 0..states]
  /\ page \in [Tab -> Page]
  /\ urls \subseteq [code : Code, state : 0..states, error : BOOLEAN]
  /\ overlapped \in BOOLEAN

RpInit ==
  /\ stored = None
  /\ made = 0
  /\ states = 0
  /\ opening = [t \in Tab |-> "no"]
  /\ saved = [t \in Tab |-> None]
  /\ page = [t \in Tab |-> Blank]
  /\ urls = {}
  /\ overlapped = FALSE

-------------------------------------------------------------------------------
(***************************************************************************)
(* The key store.  ensureKeyPair reads the key; if there is none it        *)
(* generates one and puts it, in a transaction of its own.                 *)
(***************************************************************************)

\* Faulty variant of Exchange: the refresh button stays as it is.
ExchangeWithButton(p, credential) ==
  [p EXCEPT !.status = "pending",
            !.runs = Append(@, [stage |-> "token", credential |-> credential,
                                at |-> NoAccess, rt |-> NoToken])]

\* run() begins: /token is asked with the credential, and the refresh button is off.
Exchange(p, credential) ==
  [p EXCEPT !.status = "pending", !.button = FALSE,
            !.runs = Append(@, [stage |-> "token", credential |-> credential,
                                at |-> NoAccess, rt |-> NoToken])]

\* The page has its key: a landing page arms its link, a callback page exchanges its code.
WithKey(p, k) ==
  IF p.at = "landing" THEN [p EXCEPT !.key = k]
  ELSE Exchange([p EXCEPT !.key = k],
                [jkt |-> p.code.jkt, flow |-> p.code.flow, gen |-> 0])

HasKey(t, k) ==
  /\ opening' = [opening EXCEPT ![t] = "no"]
  /\ page' = [page EXCEPT ![t] = WithKey(@, k)]

\* Faulty variant of ReadKey: a key is made on every load.
ReadNoKey(t) ==
  /\ opening[t] = "get"
  /\ opening' = [opening EXCEPT ![t] = "put"]
  /\ UNCHANGED <<page, overlapped>>

ReadKey(t) ==
  /\ opening[t] = "get"
  /\ \/ /\ stored # None
        /\ HasKey(t, stored)
        /\ UNCHANGED overlapped
     \/ /\ stored = None
        /\ opening' = [opening EXCEPT ![t] = "put"]
        /\ overlapped' = (overlapped \/ \E u \in Tab \ {t} : opening[u] = "put")
        /\ UNCHANGED page

PutKey(t) ==
  /\ opening[t] = "put"
  /\ made' = made + 1
  /\ stored' = made + 1
  /\ HasKey(t, made + 1)

\* What `fail' does to a callback page; the refresh button goes.
FailPage(p, status) == [p EXCEPT !.status = status, !.button = FALSE]

\* Faulty variant of KeyUnavailable: the page is not told.
KeyUnavailableUntold(t) ==
  /\ opening[t] # "no"
  /\ opening' = [opening EXCEPT ![t] = "no"]
  /\ UNCHANGED page

\* Opening the database, reading or writing it fails: no link, or no exchange.
KeyUnavailable(t) ==
  /\ opening[t] # "no"
  /\ opening' = [opening EXCEPT ![t] = "no"]
  /\ page' = [page EXCEPT ![t] = IF @.at = "landing" THEN Blank ELSE FailPage(@, "failed")]

KeyStep(t) ==
  \/ ReadKey(t) /\ UNCHANGED <<stored, made, states, saved, urls>>
  \/ PutKey(t) /\ UNCHANGED <<states, saved, urls, overlapped>>
  \/ KeyUnavailable(t) /\ UNCHANGED <<stored, made, states, saved, urls, overlapped>>

-------------------------------------------------------------------------------
(***************************************************************************)
(* From the landing page to the callback address.                          *)
(***************************************************************************)

Show(t, p, opens) ==
  /\ page' = [page EXCEPT ![t] = p]
  /\ opening' = [opening EXCEPT ![t] = opens]

\* GET /.  A browser without WebCrypto or IndexedDB stops; otherwise the state is
\* stored, if sessionStorage takes it, before the key is looked for.
OpenLanding(t) ==
  /\ states < MaxState
  /\ states' = states + 1
  /\ \/ Show(t, Blank, "no") /\ UNCHANGED saved
     \/ /\ Show(t, Landing(states + 1, None), "get")
        /\ \/ saved' = [saved EXCEPT ![t] = states + 1]
           \/ UNCHANGED saved
  /\ UNCHANGED <<stored, made, urls, overlapped>>

\* The authorize address of an armed link, and what is left of it when it is opened
\* with a parameter missing.
LinkOf(p) == [params |-> AuthorizeParam, state |-> p.state, jkt |-> p.key]
Without(q, x) == [q EXCEPT !.params = @ \ {x}, !.jkt = IF x = "dpop_jkt" THEN None ELSE @]

\* Faulty variant of ValidAuthorize: dpop_jkt is not asked for.
ValidAuthorizeUnbound(q) == AuthorizeParam \ {"dpop_jkt"} \subseteq q.params

ValidAuthorize(q) == q.params = AuthorizeParam

\* The demo page can only sign on with a thumbprint, a challenge and a way back; the
\* challenge is in every address /authorize makes.
FlowReady(q) == q.jkt # None /\ "redirect_uri" \in q.params

\* GET /authorize, from a link of tab t opened in tab u: 400, or on to /demo.
Authorize(t, u) ==
  /\ page[t].at = "landing"
  /\ page[t].key # None
  /\ \E q \in {LinkOf(page[t])} \cup {Without(LinkOf(page[t]), x) : x \in AuthorizeParam} :
       Show(u, IF ValidAuthorize(q) THEN Demo("login", q, NoCode) ELSE Blank, "no")
  /\ UNCHANGED <<stored, made, states, saved, urls, overlapped>>

StartSignOn(t) ==
  /\ page[t].at = "demo"
  /\ page[t].step = "login"
  /\ FlowReady(page[t].query)
  /\ page' = [page EXCEPT ![t].step = "signing"]
  /\ UNCHANGED <<stored, made, states, opening, saved, urls, overlapped>>

\* A wrong password, or a sign-on the gateway could not serve, leads back to the form.
SignOnSettles(t) ==
  /\ page[t].at = "demo"
  /\ page[t].step = "signing"
  /\ LET q == page[t].query IN
     \/ page' = [page EXCEPT ![t] = Demo("login", q, NoCode)]
     \/ page' = [page EXCEPT ![t] = Demo("completed", q, [jkt |-> q.jkt, flow |-> q.state])]
  /\ UNCHANGED <<stored, made, states, opening, saved, urls, overlapped>>

\* Faulty variant of StateMatches: the state that came back is not compared.
StateStored(t, url) == saved[t] # None

StateMatches(t, url) == saved[t] # None /\ saved[t] = url.state

\* GET /callback.  An error, or no code, is answered 400 without a script.  The script
\* stops in a browser that lacks what it needs and at a state that is missing or another.
HandleCallback(t, url) ==
  \/ /\ url.error \/ url.code = NoCode
     /\ Show(t, Blank, "no")
  \/ /\ ~url.error /\ url.code # NoCode
     /\ \/ Show(t, Callback(url.code, "failed"), "no")
        \/ /\ StateMatches(t, url)
           /\ Show(t, Callback(url.code, "pending"), "get")

\* The demo page goes back to the relying party when the button is pressed.
ReturnWithCode(t) ==
  /\ page[t].at = "demo"
  /\ page[t].step = "completed"
  /\ LET url == [code |-> page[t].code, state |-> page[t].query.state, error |-> FALSE]
     IN urls' = urls \cup {url} /\ HandleCallback(t, url)
  /\ UNCHANGED <<stored, made, states, saved, overlapped>>

\* A callback address is opened again, or one that carries an error or nothing.
OpenCallback(t) ==
  /\ \E url \in urls \cup [code : {NoCode}, state : {None}, error : BOOLEAN] :
       HandleCallback(t, url)
  /\ UNCHANGED <<stored, made, states, saved, urls, overlapped>>

-------------------------------------------------------------------------------
(***************************************************************************)
(* run(): /token, then /jwks.json, then the verification and the page.     *)
(***************************************************************************)

\* Faulty variant of VerifyAccessToken: the expiry is not looked at.
VerifyAccessTokenUnexpiring(token, key) == token.flaw \in {"none", "exp"} /\ token.jkt = key

VerifyAccessToken(token, key) == token.flaw = "none" /\ token.jkt = key

EndRun(p, i) == [p EXCEPT !.runs = RemoveAt(@, i)]

\* Faulty variant of FailRun: the refresh button stays off.
FailRunForGood(p, i) == FailPage(EndRun(p, i), "failed")

\* An answer that is no success: what is held can be refreshed again.
FailRun(p, i) ==
  [FailPage(EndRun(p, i), "failed") EXCEPT !.button = p.refreshToken # NoToken]

\* Faulty variant of RenderResult: the badge of an earlier token stays.
RenderResultKeepingBadge(p, i) ==
  LET r == p.runs[i]
      valid == VerifyAccessToken(r.at, p.key)
  IN [EndRun(p, i) EXCEPT !.shown = r.at, !.refreshToken = r.rt, !.button = r.rt # NoToken,
                          !.status = IF valid THEN "ok" ELSE "failed", !.badge = valid \/ @]

\* The page shows the token and keeps the refresh token that came with it, whether or
\* not the token verifies; the banner and the badge tell.
RenderResult(p, i) ==
  LET r == p.runs[i]
      valid == VerifyAccessToken(r.at, p.key)
  IN [EndRun(p, i) EXCEPT !.shown = r.at, !.refreshToken = r.rt, !.button = r.rt # NoToken,
                          !.status = IF valid THEN "ok" ELSE "failed", !.badge = valid]

\* An access token and perhaps the next refresh token, both of the credential.
Issued(p, i, flaw, rt) ==
  LET c == p.runs[i].credential IN
  [p EXCEPT !.runs[i] =
     [@ EXCEPT !.stage = "jwks", !.rt = rt,
               !.at = [jkt |-> c.jkt, flow |-> c.flow, flaw |-> flaw]]]

NextToken(c) == [c EXCEPT !.gen = @ + 1]

\* Faulty variant of TokenAnswers: an answer without an access token is a success, too.
TokenAnswersUnread(p, i) ==
  {Issued(p, i, flaw, rt) :
     flaw \in Flaw \cup {"none", "no token"}, rt \in {NoToken, NextToken(p.runs[i].credential)}}

\* The token endpoint, as the page sees it: it issues for a credential bound to the key
\* of the proof, refuses for any reason, or is not reached.
TokenAnswers(p, i) ==
  {Issued(p, i, flaw, rt) :
     flaw \in Flaw \cup {"none"}, rt \in {NoToken, NextToken(p.runs[i].credential)}}

RunSettles(t) ==
  /\ page[t].at = "callback"
  /\ \E i \in DOMAIN page[t].runs :
       LET p == page[t]
           next == IF p.runs[i].stage = "token"
                   THEN {FailRun(p, i), FailPage(EndRun(p, i), "error")}
                          \cup IF p.runs[i].credential.jkt = p.key THEN TokenAnswers(p, i) ELSE {}
                   ELSE {FailRun(p, i), RenderResult(p, i)}
       IN \E q \in next : page' = [page EXCEPT ![t] = q]
  /\ UNCHANGED <<stored, made, states, opening, saved, urls, overlapped>>

\* The refresh button.
ClickRefresh(t) ==
  /\ page[t].at = "callback"
  /\ page[t].button
  /\ page[t].refreshToken # NoToken
  /\ page[t].refreshToken.gen <= MaxRotations
  /\ page' = [page EXCEPT ![t] = Exchange(@, page[t].refreshToken)]
  /\ UNCHANGED <<stored, made, states, opening, saved, urls, overlapped>>

\* Tab t shows another page, or the same one loaded again.
Navigate(t) ==
  \/ OpenLanding(t)
  \/ \E u \in Tab : Authorize(u, t)
  \/ ReturnWithCode(t)
  \/ OpenCallback(t)

RpNext ==
  \E t \in Tab :
    \/ Navigate(t)
    \/ KeyStep(t)
    \/ StartSignOn(t)
    \/ SignOnSettles(t)
    \/ RunSettles(t)
    \/ ClickRefresh(t)

\* IndexedDB answers, and so does the network: the browser ends a request it cannot
\* complete, the gateway answers every one it gets.  Nothing is assumed of the user.
RpFairness == \A t \in Tab : WF_rpVars(KeyStep(t)) /\ WF_rpVars(RunSettles(t))

RpSpec == RpInit /\ [][RpNext]_rpVars /\ RpFairness

-------------------------------------------------------------------------------
(***************************************************************************)
(* What the front end promises.                                            *)
(***************************************************************************)

OnCallback(t) == page[t].at = "callback"

\* A page says that it is signed in only with a token that passes every check, is bound
\* to the key it holds, and comes from the sign-on this tab began last: not from a
\* callback address of another tab, nor from an older one.
SignedInHere ==
  \A t \in Tab : OnCallback(t) /\ page[t].status = "ok" =>
    /\ VerifyAccessToken(page[t].shown, page[t].key)
    /\ page[t].shown.flow = saved[t]

\* The badge that the sign-on is bound to this device stands beside a token that passed
\* every check, through refreshes that fail or bring a token that does not.
BadgeForVerified ==
  \A t \in Tab : OnCallback(t) /\ page[t].badge =>
    page[t].shown.flaw = "none" /\ page[t].shown.jkt = page[t].key

\* Every code is exchanged with the key it was bound to, in whichever tab.  If two tabs once
\* found the key store empty at the same time it may be a later one, which replaced the
\* code's key, but never one that was replaced itself before the code was made.
CodeMeetsItsKey ==
  \A t \in Tab : OnCallback(t) /\ page[t].key # None =>
    page[t].key = page[t].code.jkt \/ (overlapped /\ page[t].key > page[t].code.jkt)

\* A page never has two token requests under way, and its button is off during one.
OneRunAtATime ==
  \A t \in Tab : OnCallback(t) =>
    Len(page[t].runs) <= 1 /\ (page[t].runs # << >> => ~page[t].button)

\* A refresh token the page holds can be used, except while it is being used and after
\* a request that never got an answer.
HeldTokenUsable ==
  \A t \in Tab : OnCallback(t) /\ page[t].refreshToken # NoToken /\ page[t].runs = << >> =>
    page[t].button \/ page[t].status = "error"

\* Whatever /authorize lets through, the demo page can sign on with.
HandedOverReady == \A t \in Tab : page[t].at = "demo" => FlowReady(page[t].query)

\* While a page stays, the refresh token it holds is only replaced by a later one.
RotatesForward ==
  [][\A t \in Tab : OnCallback(t) /\ OnCallback(t)' =>
       LET old == page[t].refreshToken
           new == page'[t].refreshToken
       IN old # NoToken /\ new # NoToken /\ new # old => new.gen > old.gen]_rpVars

\* A page nobody leaves or loads again never waits for ever: its link is armed or not
\* offered, its exchange or refresh comes to an end.
Waiting(t) == opening[t] # "no" \/ (OnCallback(t) /\ page[t].status = "pending")

PagesSettle ==
  \A t \in Tab : []<><<Navigate(t)>>_rpVars \/ (Waiting(t) ~> ~Waiting(t))
===============================================================================
