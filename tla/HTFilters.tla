------------------------------ MODULE HTFilters ------------------------------
(***************************************************************************)
(* The lists of BEFORE and AFTER filters of the Net manager (HTNet.c), and *)
(* the registrations the library offers (HTInit.c).                        *)
(*                                                                         *)
(* A filter is the function, the status it is registered for (AFTER        *)
(* filters), its order and its template: "http" for "http://*".            *)
(***************************************************************************)
EXTENDS HTList, SequencesExt

\* HTFilterOrder, the values between the five named ones left out.
Orders == 0..4
Middle == 2
Late   == 3
AtLast == 4

\* The filters of the library and that of the application, and the statuses they
\* can be registered for.
FilterFns == {"Credentials", "PEP", "Rule", "Proxy", "Auth", "Redirect", "AuthInfo",
              "UseProxy", "Info", "Terminate"}
FilterStatuses == {"ALL", "LOADED", "ERROR", "INTERRUPTED", "NO_ACCESS", "REAUTH", "USE_PROXY",
                   "PERM_REDIRECT", "FOUND", "SEE_OTHER", "TEMP_REDIRECT"}

Filters == [fn : FilterFns, template : {"any", "http", "other"}, status : FilterStatuses,
            order : Orders]

Filter(fn, template, status, order) ==
    [fn |-> fn, template |-> template, status |-> status, order |-> order]

\* Mutant: the comparison is the wrong way round.
GoesInFrontOfEarlier(list, i, j) ==
    list[i].order > list[j].order \/ (list[i].order = list[j].order /\ i > j)

\* HTList_insertionSort puts an element before the first one that compares equal
\* or later, so that it overtakes those of its own order that were in front of it.
GoesInFront(list, i, j) ==
    list[i].order < list[j].order \/ (list[i].order = list[j].order /\ i > j)

\* HTList_insertionSort with HTBeforeOrder or HTAfterOrder.
InsertionSort(list) ==
    LET rank(i) == 1 + Cardinality({j \in DOMAIN list : GoesInFront(list, j, i)})
    IN  [k \in DOMAIN list |-> list[CHOOSE i \in DOMAIN list : rank(i) = k]]

\* HTNetCall_addBefore, HTNetCall_addAfter: in at the head, then sorted.
AddFilter(list, f) == InsertionSort(<<f>> \o list)

\* HTNetCall_deleteBefore, HTNetCall_deleteAfter: all instances of a function.
DeleteFilter(list, fn) == Sublist(list, {i \in DOMAIN list : list[i].fn # fn})

\* HTNet_addBefore, HTNet_addAfter: "Ensure not listed twice".
AddGlobal(list, f) == AddFilter(DeleteFilter(list, f.fn), f)

\* The filters HTNetCall_executeBefore calls, as long as they return HT_OK.
BeforeFor(list, scheme) ==
    Sublist(list, {i \in DOMAIN list : list[i].template \in {"any", scheme}})

\* HTNetCall_executeAfter: those for this status or for HT_ALL.
AfterFor(list, scheme, status) ==
    Sublist(list, {i \in DOMAIN list : /\ list[i].template \in {"any", scheme}
                                       /\ list[i].status \in {"ALL", status}})

HTBeforeInit ==
    << Filter("Credentials", "http", "ALL", Late),
       Filter("PEP",         "http", "ALL", Late),
       Filter("Rule",        "any",  "ALL", Late),
       Filter("Proxy",       "any",  "ALL", Late) >>

HTAfterInit ==
    << Filter("Auth",     "http", "NO_ACCESS",     Middle),
       Filter("Auth",     "http", "REAUTH",        Middle),
       Filter("PEP",      "http", "ALL",           Middle),
       Filter("Redirect", "http", "PERM_REDIRECT", Middle),
       Filter("Redirect", "http", "FOUND",         Middle),
       Filter("Redirect", "http", "SEE_OTHER",     Middle),
       Filter("Redirect", "http", "TEMP_REDIRECT", Middle),
       Filter("AuthInfo", "http", "ALL",           Middle),
       Filter("UseProxy", "http", "USE_PROXY",     Middle),
       Filter("Info",     "any",  "ALL",           Late) >>
==============================================================================
