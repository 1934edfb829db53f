----------------------------- MODULE HTRequests ------------------------------
(***************************************************************************)
(* A request from HTLoad to the application's terminate filter: the BEFORE *)
(* filters, the protocol, the AFTER filters, and the new loads that these  *)
(* start on the same request for redirections and authentication           *)
(* (HTNet.c, HTReqMan.c, HTFilter.c, HTAAUtil.c, HTAABrow.c).              *)
(*                                                                         *)
(* The library is one thread: `stack' is its call stack, innermost first.  *)
(* The event loop runs when it is empty.  The connection below a request   *)
(* is HTConnections' matter: here a protocol ends with some status.        *)
(***************************************************************************)
EXTENDS HTFilters

CONSTANTS Requests,     \* request objects
          Preemptive,   \* those in preemptive mode
          Urls,
          NoUrl,        \* an answer that redirects nowhere
          Loads,        \* what the application loads: URLs and methods
          Scheme,       \* of a URL: "http" or another
          Supported,    \* schemes with a protocol module
          Answers,      \* what loading a URL may end with
          Targets,      \* where a URL may redirect to
          Realms,
          NoRealm,
          RealmOf,      \* the realm a URL is protected by
          Forbidden,    \* URLs a rule forbids
          AppSetup,     \* what the application registers itself
          MaxRetry,     \* HTMaxRetry
          Patience,     \* bound: questions a user says yes to, per request
          Env           \* what else happens in this instance

EnvKinds == {"sync", "kill", "chain"}

Redirections == {"PERM_REDIRECT", "FOUND", "SEE_OTHER", "TEMP_REDIRECT"}
Statuses == {"LOADED", "ERROR", "NO_ACCESS", "INTERRUPTED"} \cup Redirections

ASSUME RequestAssumption ==
    /\ IsFiniteSet(Requests) /\ Preemptive \subseteq Requests
    /\ Urls # {} /\ NoUrl \notin Urls /\ NoRealm \notin Realms
    /\ Loads \subseteq Urls \X {"GET", "POST"}
    /\ Scheme \in [Urls -> {"http", "other"}] /\ Supported \subseteq {"http", "other"}
    /\ Answers \in [Urls -> SUBSET Statuses]
    /\ Targets \in [Urls -> SUBSET Urls] /\ Forbidden \subseteq Urls
    /\ RealmOf \in [Urls -> Realms \cup {NoRealm}]
    /\ \A u \in Urls : "NO_ACCESS" \in Answers[u] => RealmOf[u] # NoRealm
    /\ MaxRetry \in Nat /\ Patience \in Nat
    /\ Env \subseteq EnvKinds

\* The filter that reports a request and deletes it is the only one of order
\* HT_FILTER_LAST, as in HTLine.c, HTBrowse.c and Library/Examples.
ASSUME SetupAssumption ==
    /\ AppSetup \in Seq(Filters)
    /\ \A i \in DOMAIN AppSetup :
          AppSetup[i].fn = "Terminate" <=> AppSetup[i].order = AtLast

Methods == {"GET", "POST"}

VARIABLES setup,        \* registrations the application still makes
          before,       \* HTBefore
          after,        \* HTAfter
          req,          \* the request objects
          known,        \* the authentication tree, per realm
          stack,        \* calls in progress
          timers,       \* HTFilterEvents
          owed          \* loads accepted and not reported, counted

vars == <<setup, before, after, req, known, stack, timers, owed>>

\* The parts of HTRequest that decide something here; `net' says whether it has
\* a Net object, `asked' counts the user's patience.
Request == [alive : BOOLEAN, url : Urls, method : Methods, net : BOOLEAN,
            retrys : Nat, AAretrys : 0..2, creds : Realms \cup {NoRealm}, asked : Nat]

NoRequest == [alive |-> FALSE, url |-> CHOOSE u \in Urls : TRUE, method |-> "GET", net |-> FALSE,
              retrys |-> 0, AAretrys |-> 0, creds |-> NoRealm, asked |-> 0]

\* A function of the library that has called out and waits: HTNet_newClient in the
\* BEFORE filters or in the protocol, or HTNetCall_executeAfter.  It knows the
\* filters still to call; the AFTER filters the status they are called with,
\* where the response redirects to, and whether a BEFORE filter refused.
BeforeCall(r, u) ==
    [fn |-> "before", req |-> r, left |-> BeforeFor(before, Scheme[u])]
ProtocolCall(r) == [fn |-> "protocol", req |-> r, left |-> <<>>]
AfterCall(r, status, to, refused) ==
    [fn |-> "after", req |-> r, left |-> AfterFor(after, Scheme[req[r].url], status),
     status |-> status, to |-> to, refused |-> refused]

Top == Head(stack)
Running(fn) == stack # <<>> /\ Top.fn = fn

\* A request that is loaded again has no Net object any more.
TypeOK ==
    /\ req \in [Requests -> Request]
    /\ known \in [Realms -> {"none", "empty", "ask", "known"}]
    /\ \A i \in DOMAIN stack : /\ stack[i].fn \in {"before", "protocol", "after"}
                               /\ stack[i].fn = "before" => ~req[stack[i].req].net
    /\ timers \subseteq [req : Requests, status : {"ERROR"}]
    /\ owed \in [Requests -> Int]

Init ==
    /\ setup = HTAfterInit \o AppSetup
    /\ before = FoldLeft(AddGlobal, <<>>, HTBeforeInit)
    /\ after = <<>>
    /\ req = [r \in Requests |-> NoRequest]
    /\ known = [a \in Realms |-> "none"]
    /\ stack = <<>>
    /\ timers = {}
    /\ owed = [r \in Requests |-> 0]

\* HTAfterInit and the application register the AFTER filters, one by one.
Register ==
    /\ setup # <<>>
    /\ after' = AddGlobal(after, Head(setup))
    /\ setup' = Tail(setup)
    /\ UNCHANGED <<before, req, known, stack, timers, owed>>

Push(call) == stack' = <<call>> \o stack
Return == stack' = Tail(stack)

\* A request object that nothing in the library knows of.
Unused(r) ==
    /\ ~req[r].alive
    /\ \A i \in DOMAIN stack : stack[i].req # r
    /\ \A t \in timers : t.req # r

\* The application makes a request and calls HTLoad, in a function the library
\* has called or from the event loop.
NewLoad(r, u, m) ==
    /\ setup = <<>>
    /\ Unused(r)
    /\ req' = [req EXCEPT ![r] = [NoRequest EXCEPT !.alive = TRUE, !.url = u, !.method = m]]
    /\ owed' = [owed EXCEPT ![r] = @ + 1]

AppLoad(r, u, m) ==
    /\ stack = <<>>
    /\ NewLoad(r, u, m)
    /\ Push(BeforeCall(r, u))
    /\ UNCHANGED <<setup, before, after, known, timers>>

(***************************************************************************)
(* HTNet_newClient.                                                        *)
(***************************************************************************)
\* Mutant: the AFTER filters of a refused request are called on the spot.
RefuseOnTheSpot ==
    /\ stack' = <<AfterCall(Top.req, "ERROR", NoUrl, TRUE)>> \o Tail(stack)
    /\ UNCHANGED timers

\* A BEFORE filter did not return HT_OK: createAfterFilterEvent, so that "the
\* stack can[not] grow if new requests are started directly from the after
\* filters", unless the request is preemptive.
Refuse ==
    IF Top.req \in Preemptive
    THEN /\ stack' = <<AfterCall(Top.req, "ERROR", NoUrl, TRUE)>> \o Tail(stack)
         /\ UNCHANGED timers
    ELSE /\ Return
         /\ timers' = timers \cup {[req |-> Top.req, status |-> "ERROR"]}

\* HTProtocol_find found no module, and HTNet_newClient returns NO.  The application
\* is told by that; HTRedirectFilter does not listen.
NoProtocol ==
    /\ Running("before") /\ Top.left = <<>>
    /\ Scheme[req[Top.req].url] \notin Supported
    /\ Return
    /\ IF req[Top.req].retrys = 0
       THEN /\ req' = [req EXCEPT ![Top.req] = NoRequest]
            /\ owed' = [owed EXCEPT ![Top.req] = @ - 1]
       ELSE UNCHANGED <<req, owed>>
    /\ UNCHANGED <<setup, before, after, known, timers>>

\* The Net object is made and the protocol is called.
StartProtocol ==
    /\ Running("before") /\ Top.left = <<>>
    /\ Scheme[req[Top.req].url] \in Supported
    /\ req' = [req EXCEPT ![Top.req].net = TRUE, ![Top.req].retrys = @ + 1]
    /\ stack' = <<ProtocolCall(Top.req)>> \o Tail(stack)
    /\ UNCHANGED <<setup, before, after, known, timers, owed>>

\* The protocol has done what it can now and goes on in the event loop.
ProtocolWaits ==
    /\ Running("protocol")
    /\ Top.req \notin Preemptive
    /\ Return
    /\ UNCHANGED <<setup, before, after, req, known, timers, owed>>

\* Mutant: the Net object is freed when the AFTER filters are done.
NetDeleteLater(r, status, to, rest) ==
    /\ stack' = <<AfterCall(r, status, to, FALSE)>> \o rest
    /\ UNCHANGED <<setup, before, after, req, known, timers, owed>>

\* HTNet_delete: the Net object is gone before the AFTER filters are called.
NetDelete(r, status, to, rest) ==
    /\ req' = [req EXCEPT ![r].net = FALSE]
    /\ stack' = <<AfterCall(r, status, to, FALSE)>> \o rest
    /\ UNCHANGED <<setup, before, after, known, timers, owed>>

Location(u, status) ==
    IF status \in Redirections /\ Targets[u] # {} THEN Targets[u] ELSE {NoUrl}

\* The protocol ends before it returns: a preemptive request, or an error that
\* shows at once.
ProtocolEnds ==
    /\ Running("protocol")
    /\ LET r == Top.req IN
       \E status \in IF r \in Preemptive THEN Answers[req[r].url]
                     ELSE IF "sync" \in Env THEN {"ERROR"} ELSE {} :
           \E to \in Location(req[r].url, status) : NetDelete(r, status, to, Tail(stack))

\* The answer is there, or the connection failed.
Answer(r) ==
    /\ stack = <<>>
    /\ req[r].net
    /\ \E status \in Answers[req[r].url] :
           \E to \in Location(req[r].url, status) : NetDelete(r, status, to, <<>>)

\* HTRequest_kill: HTNet_kill has the protocol close.  Without a Net object it
\* does nothing.
Kill(r) ==
    /\ "kill" \in Env
    /\ stack = <<>>
    /\ req[r].net
    /\ NetDelete(r, "INTERRUPTED", NoUrl, <<>>)

\* AfterFilterEvent.
FilterEvent(r) ==
    /\ stack = <<>>
    /\ \E t \in timers :
          /\ t.req = r
          /\ timers' = timers \ {t}
          /\ Push(AfterCall(t.req, t.status, NoUrl, TRUE))
    /\ UNCHANGED <<setup, before, after, req, known, owed>>

(***************************************************************************)
(* The BEFORE filters.                                                     *)
(***************************************************************************)
Calling(fn, filters) == Running(fn) /\ Top.left # <<>> /\ Head(Top.left).fn \in filters

\* The rest of the filters are called, or, when one did not return HT_OK, none.
NextFilter == [Top EXCEPT !.left = Tail(@)]
LastFilter == [Top EXCEPT !.left = <<>>]
FilterOk   == stack' = <<NextFilter>> \o Tail(stack)

\* Filters that let everything pass here: HTProxyFilter sets the proxy of the
\* request, the PEP filters find no extensions, HTInfoFilter shows messages,
\* HTAuthInfoFilter has nothing to update for basic authentication.
PassFilter ==
    /\ \/ Calling("before", {"Proxy", "PEP"})
       \/ Calling("before", {"Rule"}) /\ req[Top.req].url \notin Forbidden
       \/ Calling("after", {"Info", "AuthInfo", "PEP"})
    /\ FilterOk
    /\ UNCHANGED <<setup, before, after, req, known, timers, owed>>

\* HTRuleFilter: a rule forbids the URL.
RuleForbids ==
    /\ Calling("before", {"Rule"})
    /\ req[Top.req].url \in Forbidden
    /\ Refuse
    /\ UNCHANGED <<setup, before, after, req, known, owed>>

\* The user says yes, as long as the patience lasts, or no.
CanAgree(r) == req[r].asked < Patience

\* HTCredentialsFilter with HTBasic_generate: nothing known of the realm, or the
\* user is asked for a name and a password, or what was typed in before is used.
Credentials ==
    LET r == Top.req
        a == RealmOf[req[r].url]
    IN
    /\ Calling("before", {"Credentials"})
    /\ \/ /\ a = NoRealm \/ (a # NoRealm /\ known[a] = "none")
          /\ FilterOk
          /\ UNCHANGED <<req, known, timers>>
       \/ /\ a # NoRealm /\ known[a] = "known"
          /\ req' = [req EXCEPT ![r].creds = a]
          /\ FilterOk
          /\ UNCHANGED <<known, timers>>
       \/ /\ a # NoRealm /\ known[a] \in {"empty", "ask"}
          /\ CanAgree(r)
          /\ known' = [known EXCEPT ![a] = "known"]
          /\ req' = [req EXCEPT ![r].creds = a, ![r].asked = @ + 1]
          /\ FilterOk
          /\ UNCHANGED timers
       \/ /\ a # NoRealm /\ known[a] \in {"empty", "ask"}
          /\ known' = [known EXCEPT ![a] = "none"]
          /\ Refuse
          /\ UNCHANGED req
    /\ UNCHANGED <<setup, before, after, owed>>

(***************************************************************************)
(* The AFTER filters.                                                      *)
(***************************************************************************)
\* HTLoad on the request from one of its AFTER filters, which returns HT_ERROR
\* "to make sure that this is the last handler to be called".
Reload(r, u) == stack' = <<BeforeCall(r, u)>> \o <<LastFilter>> \o Tail(stack)

\* HTAuthFilter with HTAA_afterFilter and HTBasic_parse.  Who was refused twice
\* with what is known of the realm is asked whether to try again.
Authenticate ==
    LET r     == Top.req
        a     == RealmOf[req[r].url]
        tries == IF req[r].AAretrys = 2 THEN 2 ELSE req[r].AAretrys + 1
        retry == known[a] = "ask" \/ (known[a] = "known" /\ tries > 1)
        tried == [req EXCEPT ![r].creds = NoRealm, ![r].AAretrys = tries]
    IN
    /\ Calling("after", {"Auth"})
    /\ \/ /\ ~retry
          /\ known' = IF known[a] = "none" THEN [known EXCEPT ![a] = "empty"] ELSE known
          /\ req' = tried
          /\ Reload(r, req[r].url)
       \/ /\ retry
          /\ CanAgree(r)
          /\ known' = [known EXCEPT ![a] = "ask"]
          /\ req' = [tried EXCEPT ![r].asked = @ + 1]
          /\ Reload(r, req[r].url)
       \/ /\ retry
          /\ known' = [known EXCEPT ![a] = "ask"]
          /\ req' = tried
          /\ FilterOk
    /\ UNCHANGED <<setup, before, after, timers, owed>>

\* HTRequest_doRetry.
DoRetry(r) == req[r].retrys < MaxRetry - 1

\* Mutant: the credentials stay with the request.
RedirectedWithCredentials(r) ==
    [req EXCEPT ![r].method = IF Top.status = "SEE_OTHER" THEN "GET" ELSE @]

\* HTRedirectFilter up to the check for endless loops: 303 makes a GET of any
\* method, "Delete any auth credendials as they get regenerated".
Redirected(r) ==
    [req EXCEPT ![r].method = IF Top.status = "SEE_OTHER" THEN "GET" ELSE @,
                ![r].creds = NoRealm]

\* Only unsafe methods with a status other than 303 need a confirmation.
MustConfirm(r) == req[r].method = "POST" /\ Top.status # "SEE_OTHER"

\* No destination, or the user does not want to go there.
RedirectNot ==
    /\ Calling("after", {"Redirect"})
    /\ Top.to = NoUrl \/ MustConfirm(Top.req)
    /\ FilterOk
    /\ UNCHANGED <<setup, before, after, req, known, timers, owed>>

RedirectWanted == Top.to # NoUrl /\ (MustConfirm(Top.req) => CanAgree(Top.req))

\* Mutant: the filter does not let the others tell the application.
FallThroughNot ==
    stack' = <<LastFilter>> \o Tail(stack)

\* "Wanna fall through".
FallThrough == FilterOk

RedirectTooOften ==
    /\ Calling("after", {"Redirect"})
    /\ RedirectWanted
    /\ ~DoRetry(Top.req)
    /\ req' = Redirected(Top.req)
    /\ FallThrough
    /\ UNCHANGED <<setup, before, after, known, timers, owed>>

\* HTLoadAnchor on the same request object, whatever it returns.
RedirectFollow ==
    LET r == Top.req IN
    /\ Calling("after", {"Redirect"})
    /\ RedirectWanted
    /\ DoRetry(r)
    /\ req' = [Redirected(r) EXCEPT ![r].url = Top.to,
                   ![r].asked = IF MustConfirm(r) THEN @ + 1 ELSE @]
    /\ Reload(r, Top.to)
    /\ UNCHANGED <<setup, before, after, known, timers, owed>>

\* The filter of the application, registered last for every status: it reports
\* the load and deletes the request, and may load the next one at once.
Report(r) ==
    /\ Calling("after", {"Terminate"})
    /\ Top.req = r
    /\ owed' = [owed EXCEPT ![r] = @ - 1]
    /\ req' = [req EXCEPT ![r] = NoRequest]
    /\ FilterOk
    /\ UNCHANGED <<setup, before, after, known, timers>>

ReportAndLoad(r, next, u, m) ==
    /\ "chain" \in Env
    /\ Calling("after", {"Terminate"})
    /\ Top.req = r /\ next # r /\ Unused(next)
    /\ owed' = [owed EXCEPT ![r] = @ - 1, ![next] = @ + 1]
    /\ req' = [req EXCEPT ![r] = NoRequest,
                   ![next] = [NoRequest EXCEPT !.alive = TRUE, !.url = u, !.method = m]]
    /\ stack' = <<BeforeCall(next, u)>> \o <<NextFilter>> \o Tail(stack)
    /\ UNCHANGED <<setup, before, after, known, timers>>

\* HTNet_executeAfterAll is done.
AfterReturns ==
    /\ Running("after") /\ Top.left = <<>>
    /\ Return
    /\ UNCHANGED <<setup, before, after, req, known, timers, owed>>

LibraryStep ==
    \/ NoProtocol \/ StartProtocol \/ ProtocolWaits \/ ProtocolEnds
    \/ PassFilter \/ RuleForbids \/ Credentials
    \/ Authenticate \/ RedirectNot \/ RedirectTooOften \/ RedirectFollow
    \/ AfterReturns
    \/ \E r \in Requests : Report(r)
    \/ \E r, next \in Requests, l \in Loads : ReportAndLoad(r, next, l[1], l[2])

Next ==
    \/ Register
    \/ LibraryStep
    \/ \E r \in Requests :
          \/ \E l \in Loads : AppLoad(r, l[1], l[2])
          \/ Answer(r) \/ Kill(r) \/ FilterEvent(r)

Spec == Init /\ [][Next]_vars

\* A call the library is in goes on; the event loop serves every connection and
\* every timer, also when others keep it busy; servers answer.
FairSpec ==
    /\ Spec
    /\ WF_vars(Register) /\ WF_vars(LibraryStep)
    /\ \A r \in Requests : SF_vars(Answer(r)) /\ SF_vars(FilterEvent(r))

(***************************************************************************)
(* Properties.                                                             *)
(***************************************************************************)
\* No filter is called with a request that the application has deleted in its
\* terminate filter (HTRequest_delete in a filter of order HT_FILTER_LAST): not
\* from a list further out on the stack that started the request again, and not
\* from the timer of a refused request (HTNet.c:507-540, HTFilter.c:255-275).
NoFilterAfterDelete ==
    /\ \A i \in DOMAIN stack : stack[i].left # <<>> => req[stack[i].req].alive
    /\ \A t \in timers : req[t.req].alive

\* What a refused request leads to is called from the event loop: a chain of
\* requests that BEFORE filters refuse, each started by the terminate filter of
\* the one before, does not grow the stack (HTNet_newClient, HTNet.c:723-736).
RefusedFromLoop ==
    \A i \in DOMAIN stack :
        stack[i].fn = "after" /\ stack[i].refused /\ stack[i].req \notin Preemptive
            => i = Len(stack)

\* A request on the wire has no credentials but those of the realm of its own
\* URL, whatever it was redirected from (HTRedirectFilter, HTFilter.c:248).
CredentialsOfRealm ==
    \A r \in Requests :
        req[r].net /\ req[r].creds # NoRealm => req[r].creds = RealmOf[req[r].url]

\* The request was redirected to a URL whose scheme has no protocol module:
\* HTLoadAnchor returns NO, HTRedirectFilter does not look at what it returns and
\* stops the filters (HTFilter.c:263, 275), and the request waits for nothing.
Astray(r) == req[r].retrys > 0 /\ Scheme[req[r].url] \notin Supported

\* A load the application made is reported, and no load twice, as LoadService
\* says: what fails of it is the report of a request that went astray.
Service == INSTANCE LoadService
EachReportedOnce == Service!Spec

\* No load is reported twice, and each is in the end unless it goes astray: a
\* server that redirects in circles runs into HTMaxRetry (HTRequest_doRetry), a
\* refused request into its timer, and a filter that starts the request again is
\* the last of its list (HTFilter.c:270-275).
ReportedUnlessAstray ==
    /\ Service!Init /\ [][Service!Next]_owed
    /\ \A r \in Requests : owed[r] = 1 ~> (owed[r] = 0 \/ Astray(r))

\* The filters HTAfterInit registers "handle error messages, logging,
\* redirection, authentication etc." (HTInit.c:202-207): each is in the list.
HTAfterInitInEffect ==
    setup = <<>> => \A i \in DOMAIN HTAfterInit : \E j \in DOMAIN after : after[j] = HTAfterInit[i]
==============================================================================
