----------------------------- MODULE MCRequests ------------------------------
(***************************************************************************)
(* Small instances of HTRequests for TLC.                                  *)
(***************************************************************************)
EXTENDS HTRequests, TLC

CONSTANTS r1, r2, moved, secret, private, banned, odd, site, other

Redirects == {"TEMP_REDIRECT", "SEE_OTHER"}

\* A page that has moved, in circles, to a URL no protocol module is registered for,
\* or to a protected page, which has moved to a page protected by another realm or
\* to one a rule of the user forbids.
Schemes == [u \in Urls |-> IF u = odd THEN "other" ELSE "http"]
Replies == [u \in Urls |-> CASE u = moved   -> Redirects
                             [] u = secret  -> {"NO_ACCESS", "LOADED", "TEMP_REDIRECT"}
                             [] u = private -> {"NO_ACCESS", "ERROR"}
                             [] OTHER       -> {"LOADED"}]
Places  == [u \in Urls |-> CASE u = moved  -> {moved, secret, odd}
                             [] u = secret -> {private, banned}
                             [] OTHER      -> {}]
Areas   == [u \in Urls |-> CASE u = secret  -> site
                             [] u = private -> other
                             [] OTHER       -> NoRealm]
AppLoads == {<<moved, "POST">>, <<secret, "GET">>, <<odd, "GET">>}

\* HTNet_addAfter leaves HTAuthFilter and HTRedirectFilter for one status each:
\* the application chooses which, and adds its own filter.
AppFilters == << Filter("Auth",      "http", "NO_ACCESS", Middle),
                 Filter("Redirect",  "http", "ALL",       Middle),
                 Filter("Terminate", "any",  "ALL",       AtLast) >>
==============================================================================
