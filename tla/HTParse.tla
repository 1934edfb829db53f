------------------------------- MODULE HTParse --------------------------------
(***************************************************************************)
(* Names (HTParse.c): taking a name to pieces, putting it together with    *)
(* the name it is relative to, simplifying it, and making it relative.     *)
(*                                                                         *)
(* A name is a sequence of characters; a word stands for a run of letters. *)
(* A missing part is <<>>, another one <<string>>.  Left out: blanks,   *)
(* "URL:" and "news:" prefixes, escapes.                                   *)
(***************************************************************************)
EXTENDS Integers, Sequences, SequencesExt

CONSTANTS Characters,   \* what names are made of
          Hosts,        \* with their ports
          MaxName,      \* characters of the path of a name
          MaxBase       \* characters of the path it is relative to

ASSUME NameAssumption == MaxName \in Nat /\ MaxBase \in Nat

VARIABLES name,         \* an absolute name without a fragment, as it is and simplified
          base          \* the name it is related to

nameVars == <<name, base>>

Missing == <<>>
None(s) == s = Missing

At(s, i) == IF i \in DOMAIN s THEN s[i] ELSE "end"
From(s, i) == SubSeq(s, i, Len(s))
Upto(s, i) == SubSeq(s, 1, i)

\* strchr and strstr: where it is first, after the end if it is nowhere.
Position(s, cs, from) == Min({i \in from..Len(s) : s[i] \in cs} \cup {Len(s) + 1})
Begins(s, i, t) == IsPrefix(t, From(s, i))
PositionOf(s, t) == Min({i \in DOMAIN s : Begins(s, i, t)} \cup {Len(s) + 1})

(***************************************************************************)
(* scan.                                                                   *)
(***************************************************************************)
Scan(full) ==
    LET hash   == Position(full, {"#"}, 1)
        s      == Upto(full, hash - 1)
        stop   == Position(s, {":", "/", "?"}, 1)
        access == At(s, stop) = ":"
        p      == IF access THEN stop + 1 ELSE 1
        host   == At(s, p) = "/" /\ At(s, p + 1) = "/"
        root   == IF host THEN Position(s, {"/"}, p + 2) ELSE p
    IN  [access   |-> IF access THEN <<Upto(s, stop - 1)>> ELSE Missing,
         host     |-> IF host THEN <<SubSeq(s, p + 2, root - 1)>> ELSE Missing,
         absolute |-> IF At(s, root) = "/" THEN <<From(s, root + 1)>> ELSE Missing,
         relative |-> IF At(s, p) \notin {"/", "end"} THEN <<From(s, p)>> ELSE Missing,
         fragment |-> IF hash <= Len(full) THEN <<From(full, hash + 1)>> ELSE Missing]

(***************************************************************************)
(* HTParse, for all parts and the punctuation.                             *)
(***************************************************************************)
Or(a, b) == IF None(a) THEN b ELSE a
Text(before, part) == IF None(part) THEN <<>> ELSE before \o part[1]
Differ(a, b) == ~None(a) /\ ~None(b) /\ a # b

\* The name without its last part and without a search part.
Directory(s) ==
    LET p == Position(s, {"?"}, 1)
    IN  Upto(s, Max({i \in 1..(p - 1) : s[i] = "/"}))

\* What the related name has to give: nothing but its access where the other name has a
\* different one, no path where it has a different host.
Near(given, all) ==
    LET rel == IF Differ(given.access, all.access)
               THEN [all EXCEPT !.host = Missing, !.absolute = Missing, !.relative = Missing,
                                !.fragment = Missing]
               ELSE all
    IN  IF Differ(given.host, rel.host)
        THEN [rel EXCEPT !.absolute = Missing, !.relative = Missing, !.fragment = Missing]
        ELSE rel

Join(given, near) ==
    LET access  == Or(given.access, near.access)
        front   == (IF None(access) THEN <<>> ELSE access[1] \o <<":">>)
                   \o Text(<<"/", "/">>, Or(given.host, near.host))
        adopted == front \o Text(<<"/">>, near.absolute)
        path    == CASE ~None(given.absolute) -> front \o Text(<<"/">>, given.absolute)
                     [] None(given.absolute) /\ ~None(near.absolute) ->
                          IF None(given.relative) THEN adopted
                          ELSE Directory(adopted) \o given.relative[1]
                     [] OTHER -> front \o Text(<<>>, Or(given.relative,
                                                        Or(near.relative, <<<<"/">>>>)))
    IN  IF None(given.absolute) /\ None(given.fragment) THEN path
        ELSE path \o Text(<<"#">>, Or(given.fragment, near.fragment))

Parse(aName, relatedName) ==
    LET given == Scan(aName) IN Join(given, Near(given, Scan(relatedName)))

(***************************************************************************)
(* HTCanon: the host in lower case and without a dot at its end, without   *)
(* the port the protocol has anyway.  It returns where the path begins.    *)
(***************************************************************************)
DefaultPort == "80"
Lower(c) == IF c = "HOST" THEN "host" ELSE c

Drop(s, from, n) == Upto(s, from - 1) \o From(s, from + n)

Canon(url, host) ==
    LET path  == Position(url, {"/"}, host)
        low   == [i \in DOMAIN url |-> IF i \in host..(path - 1) THEN Lower(url[i]) ELSE url[i]]
        colon == Position(low, {":"}, host)
        port  == colon < path
        dot   == IF port THEN colon ELSE path
        dots  == IF At(low, dot - 1) = "." THEN 1 ELSE 0
        s     == Drop(low, dot - dots, dots)
        c     == colon - dots
        p     == path - dots
    IN  CASE ~port -> [url |-> s, path |-> p]
          [] port /\ At(s, c + 1) \in {"/", "end"} -> [url |-> Drop(s, c, 1), path |-> p]
          [] port /\ At(s, c + 1) = DefaultPort /\ At(s, c + 2) \in {"/", "end"} ->
                [url |-> Drop(s, c, 2), path |-> p - 2]
          [] OTHER -> [url |-> s, path |-> p]

(***************************************************************************)
(* HTSimplify.                                                             *)
(***************************************************************************)
Dot(s, i)    == At(s, i) = "." /\ At(s, i + 1) \in {"/", "end"}
DotDot(s, i) == At(s, i) = "." /\ At(s, i + 1) = "." /\ At(s, i + 2) \in {"/", "end"}

\* The end of a name of n characters before i, with the slash behind it.
Past(s, i, n) == IF At(s, i + n) = "/" THEN n + 1 ELSE n

\* A turn of the loop over the path: [s, p, end].  What is taken out of the name makes
\* the loop go on to the end of the string.
Cut(s, from, n, p) == [s |-> Drop(s, from, n), p |-> p, end |-> Len(s) - n + 1]
Ahead(st) == [st EXCEPT !.p = @ + 1]

Shorten(st, path) ==
    LET s == st.s
        p == st.p
        q == Max({path} \cup {i \in path..(p - 1) : s[i] = "/"})
    IN  CASE s[p] # "/" -> Ahead(st)
          [] s[p] = "/" /\ p > 1 /\ Dot(s, p + 1) -> Cut(s, p + 1, Past(s, p + 1, 1), p)
          [] s[p] = "/" /\ ~(p > 1 /\ Dot(s, p + 1)) /\ DotDot(s, p + 1) ->
                IF Begins(s, q, <<"/", ".", ".", "/">>) THEN Ahead(st)
                ELSE Cut(s, q + 1, p + Past(s, p + 1, 2) - q, q)
          [] s[p] = "/" /\ At(s, p + 1) = "/" -> Cut(s, p, 1, p)
          [] OTHER -> Ahead(st)

RECURSIVE Loop(_, _)
Loop(st, path) == IF st.p < st.end THEN Loop(Shorten(st, path), path) ELSE st.s

\* "Check for host/../.. kind of things".
RECURSIVE Strip(_, _)
Strip(s, path) ==
    IF At(s, path) = "/" /\ DotDot(s, path + 1) THEN Strip(Drop(s, path, 3), path) ELSE s

PathOf(url) ==
    LET scheme == PositionOf(url, <<":", "/", "/">>)
        last   == Max({i \in DOMAIN url : Begins(url, i, <<":", "/", "/">>)} \cup {0})
        short  == PositionOf(url, <<":", "/">>)
    IN  CASE scheme <= Len(url) -> Canon(url, last + 3)
          [] scheme > Len(url) /\ short <= Len(url) -> [url |-> url, path |-> short + 2]
          [] OTHER -> [url |-> url, path |-> 1]

SimplifyFrom(at) ==
    LET url  == at.url
        path == IF At(url, at.path) = "/" /\ At(url, at.path + 1) = "/"
                THEN at.path + 1 ELSE at.path
        semi == Position(url, {";"}, path)
        ask  == Position(url, {"?"}, path)
        end  == CASE semi <= Len(url) -> semi
                  [] semi > Len(url) /\ ask <= Len(url) -> ask
                  [] OTHER -> Position(url, {"#"}, path)
    IN  Strip(Loop([s |-> url, p |-> path, end |-> end], path), path)

Simplify(full) == SimplifyFrom(PathOf(full))

(***************************************************************************)
(* HTRelative.                                                             *)
(***************************************************************************)
\* Mutant: a name in the same directory is given as it is, without "./".
StepsBare(levels) == [i \in 1..(3 * levels) |-> IF i % 3 = 0 THEN "/" ELSE "."]

Steps(levels) ==
    IF levels = 0 THEN <<".", "/">>
    ELSE [i \in 1..(3 * levels) |-> IF i % 3 = 0 THEN "/" ELSE "."]

Relative(aName, relatedName) ==
    LET match  == Len(LongestCommonPrefix({aName, relatedName}))
        same   == Upto(aName, match)
        slashes == {i \in 1..match : same[i] = "/"}
        rest   == From(relatedName, match + 1)
        levels == Cardinality({i \in 1..(Position(rest, {"#", ";", "?"}, 1) - 1) : rest[i] = "/"})
        down   == From(aName, Max(slashes \cup {0}) + 1)
    IN  CASE Position(same, {":"}, 1) > match -> aName
          [] Position(same, {":"}, 1) <= match /\ Cardinality(slashes) < 3 ->
                From(aName, Position(same, {":"}, 1) + 1)
          [] OTHER -> Steps(levels) \o down

(***************************************************************************)
(* Names grow by one character at a time, the base first.                  *)
(***************************************************************************)
Url(host, path) == <<"http", ":", "/", "/">> \o host \o path

\* A name, with what HTSimplify makes of it.
Name(host, path) == [host |-> host, path |-> path, url |-> Simplify(Url(host, path))]

NameInit == name \in {Name(h, <<"/">>) : h \in Hosts} /\ base \in {Name(h, <<"/">>) : h \in Hosts}

Longer(n, c) == Name(n.host, Append(n.path, c))

GrowName(c) ==
    /\ Len(name.path) < MaxName
    /\ name' = Longer(name, c)
    /\ UNCHANGED base

GrowBase(c) ==
    /\ Len(base.path) < MaxBase /\ Len(name.path) = 1
    /\ base' = Longer(base, c)
    /\ UNCHANGED name

NameNext == \E c \in Characters : GrowName(c) \/ GrowBase(c)

(***************************************************************************)
(* Properties.                                                             *)
(***************************************************************************)
\* HTSimplify and HTRelative look at slashes in a different way in three places: next to
\* the first one of the path, in parameters and in a query.
Plain(path) == At(path, 2) # "/" /\ "/" \notin Range(From(path, Position(path, {";", "?"}, 1)))

\* What HTRelative says of itself (HTParse.c:452): its result, parsed by HTParse relative
\* to relatedName and simplified, is the name again.  Both names are simplified before.
RelativeYieldsName ==
    Plain(name.path) /\ Plain(base.path) /\ ~None(Scan(name.url).absolute) =>
        Simplify(Parse(Relative(name.url, base.url), base.url)) = name.url
==============================================================================
