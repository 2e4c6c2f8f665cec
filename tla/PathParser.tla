----------------------------- MODULE PathParser -----------------------------
(***************************************************************************)
(* KscPathParser (clntpath.cpp): a resource locator "//host/server/path",  *)
(* or a prefix of it, or a path, is taken apart, and further paths are     *)
(* resolved against it.  A text is a sequence of tokens: "/", "." and      *)
(* names, each of which is as good as any other sequence of characters.    *)
(***************************************************************************)
EXTENDS Integers, Sequences, SequencesExt, FiniteSetsExt

CONSTANTS
    OwnNames,          \* names in the locator
    FurtherNames,      \* names in the paths that are resolved against it
    MaxOwn, MaxFurther \* bounds: components of each

VARIABLES
    locator,           \* what the parser was given: the host, the server, the path
    further,           \* the items of the path to be resolved
    resolved           \* its resolution

parserVars == <<locator, further, resolved>>

Delimiter == {"/", "."}
From(z, i) == SubSeq(z, i, Len(z))
NextOf(z, i, tokens) == Min({j \in i .. Len(z) : z[j] \in tokens} \cup {Len(z) + 1})
Delimiters(z) == {i \in 1 .. Len(z) : z[i] \in Delimiter}

-----------------------------------------------------------------------------
\* The constructor.

\* KscPath::parse(): delimiters are apart, but for "/." at the beginning.
PathIsValid(z) ==
    /\ z # <<>> /\ z[1] = "/"
    /\ Len(z) = 1 \/ z[Len(z)] \notin Delimiter
    /\ \A i \in 2 .. Len(z) : {z[i - 1], z[i]} \subseteq Delimiter => i = 2 /\ z[i] = "."

slash_count(z) == IF Len(z) = 1 THEN 0 ELSE Cardinality(Delimiters(z))

Parsed(type, hostserver, path) == [type |-> type, hostserver |-> hostserver, path |-> path]
Invalid(z) == Parsed("INVALID", <<>>, z)
WithPath(type, z, start) ==
    IF PathIsValid(From(z, start))
    THEN Parsed(type, SubSeq(z, 1, start - 1), From(z, start)) ELSE Invalid(z)

\* After "//", where a name starts, its first token is not looked at.
parseResourceLocator(z) ==
    LET host == NextOf(z, 4, {"/"})
        server == NextOf(z, host + 2, {"/"})
    IN  IF z = <<>> \/ z[1] # "/" THEN Invalid(z)
        ELSE IF Len(z) = 1 \/ z[2] # "/" THEN WithPath("PATHONLY", z, 1)
        ELSE IF Len(z) = 2 \/ Len(z) = host THEN Invalid(z)
        ELSE IF Len(z) < host THEN Parsed("HOST", z, <<>>)
        ELSE IF Len(z) < server THEN Parsed("HOSTSERVER", z, <<>>)
        ELSE WithPath("RESOURCELOCATOR", z, server)

KsString(parser) == parser.hostserver \o parser.path

-----------------------------------------------------------------------------
\* getParent(), not beyond the root.

getPathOnly(z) == IF slash_count(z) > 1 THEN SubSeq(z, 1, Max(Delimiters(z)) - 1) ELSE <<"/">>

getParent(parser) ==
    CASE parser.type \in {"INVALID", "HOST"} -> <<>>
      [] parser.type = "HOSTSERVER" ->
            SubSeq(parser.hostserver, 1, NextOf(parser.hostserver, 4, {"/"}) - 1)
      [] OTHER -> parser.hostserver \o
                  (IF slash_count(parser.path) = 0 THEN parser.path ELSE getPathOnly(parser.path))

-----------------------------------------------------------------------------
\* resolve(): the components of the path go on a stack, from which "../" takes
\* the last one, or one of the parser's own path when it is empty.  The next
\* pointer of what is then the top is left as it was.

Undefined == <<"undefined">>
Malformed == [malformed |-> TRUE]

At(z, i) == IF i <= Len(z) THEN z[i] ELSE "end"

AfterSpecial(s, i) == [s EXCEPT !.sz = i, !.p = i + 1, !.dotAllowed = TRUE, !.canBeJoined = FALSE]

\* Slip: a component of the parser's own path goes as well.
GoUp_Both(s) ==
    LET own == [s EXCEPT !.keep = IF @ > 0 THEN @ - 1 ELSE 0]
    IN  IF s.stack = <<>> THEN own
        ELSE [own EXCEPT !.stack = Front(@), !.dangling = Len(s.stack) > 1]

GoUp(s) ==
    IF s.stack # <<>> THEN [s EXCEPT !.stack = Front(@), !.dangling = Len(s.stack) > 1]
    ELSE [s EXCEPT !.keep = IF @ > 0 THEN @ - 1 ELSE 0]

\* A component from token first to the delimiter at token end.
Push(s, first, end) ==
    [s EXCEPT !.stack = Append(@, [first |-> first, len |-> end - first, join |-> s.canBeJoined]),
              !.dangling = FALSE, !.canBeJoined = TRUE, !.sz = end, !.p = end + 1]

RECURSIVE Components(_, _)
Components(z, s) ==
    LET a == At(z, s.p)
        b == At(z, s.p + 1)
    IN  IF a = "end" THEN s
        ELSE IF a = "." /\ b = "/" THEN Components(z, AfterSpecial(s, s.p + 1))
        ELSE IF a = "." /\ b = "."
        THEN IF At(z, s.p + 2) \in {"/", "end"}
             THEN Components(z, AfterSpecial(GoUp(s), s.p + 2)) ELSE Malformed
        ELSE IF a = "."
        THEN IF s.dotAllowed /\ b # "end"
             THEN Components(z, Push([s EXCEPT !.dotAllowed = FALSE],
                                     s.p, NextOf(z, s.p + 1, Delimiter)))
             ELSE Malformed
        ELSE Components(z, Push(s, s.sz, NextOf(z, s.p, Delimiter)))

\* What is kept of the path: keep components, of which "/." begins only one.
Kept(path, keep) ==
    LET starts == IF At(path, 2) = "." THEN Delimiters(path) \ {1} ELSE Delimiters(path)
        next == {i \in starts : Cardinality({j \in starts : j < i}) = keep}
    IN  IF keep = 0 THEN <<>>
        ELSE IF keep > Cardinality(starts) THEN Undefined
        ELSE SubSeq(path, 1, Min(next \cup {Len(path) + 1}) - 1)

\* Joined components are taken at one go, from where the last one ended.
Appended(kept, z, stack) ==
    FoldLeft(LAMBDA f, c :
        IF c.join
        THEN [text |-> f.text \o SubSeq(z, f.end, f.end + c.len - 1), end |-> f.end + c.len]
        ELSE [text |-> f.text \o
                       (IF z[c.first] \notin Delimiter \/ (z[c.first] = "." /\ f.text = <<>>)
                        THEN <<"/">> ELSE <<>>) \o SubSeq(z, c.first, c.first + c.len - 1),
              end |-> c.first + c.len],
        [text |-> kept, end |-> 0], stack).text

resolveRelative(parser, z) ==
    LET s == Components(z, [p |-> 1, sz |-> 1, stack |-> <<>>, dangling |-> FALSE,
                            keep |-> slash_count(parser.path),
                            dotAllowed |-> TRUE, canBeJoined |-> FALSE])
    IN  IF s = Malformed THEN <<>>
        ELSE IF s.dangling \/ Kept(parser.path, s.keep) = Undefined THEN Undefined
        ELSE parser.hostserver \o Appended(Kept(parser.path, s.keep), z, s.stack)

\* The number of components of a path that was never set is not initialized.
resolveAgainst(parser, z) ==
    IF At(z, 1) = "/" /\ At(z, 2) = "/" THEN From(z, 2)
    ELSE IF At(z, 1) = "/"
    THEN IF parser.type \in {"RESOURCELOCATOR", "HOSTSERVER"}
         THEN parser.hostserver \o From(z, 2) ELSE <<>>
    ELSE IF parser.type \in {"INVALID", "HOST"} THEN <<>>
    ELSE IF z = <<>> THEN KsString(parser)
    ELSE IF parser.type = "HOSTSERVER" THEN Undefined
    ELSE resolveRelative(parser, z)

-----------------------------------------------------------------------------
\* A client with one parser and one path to be resolved against it.

Item(names) == {[kind |-> k, name |-> n] : k \in {"child", "part"}, n \in names}
Same == [kind |-> "same", name |-> "."]
Up == [kind |-> "up", name |-> ".."]

OwnPaths == UNION {[1 .. n -> Item(OwnNames)] : n \in 0 .. MaxOwn}
FurtherPaths == UNION {[1 .. n -> Item(FurtherNames) \cup {Same, Up}] : n \in 1 .. MaxFurther}

\* "//host" without a path, "//host/server" with one or without, or a path.
Locators ==
    {[names |-> <<"host">>, path |-> <<>>]} \cup
    {[names |-> <<"host", "server">>, path |-> <<>>]} \cup
    [names : {<<>>, <<"host", "server">>}, path : {<<own>> : own \in OwnPaths}]

Delimited(item) == <<IF item.kind = "part" THEN "." ELSE "/", item.name>>
PathText(items) ==
    IF items = <<>> THEN <<"/">>
    ELSE (IF items[1].kind = "part" THEN <<"/">> ELSE <<>>)
         \o FlattenSeq([i \in 1 .. Len(items) |-> Delimited(items[i])])
ServerText(names) ==
    IF names = <<>> THEN <<>>
    ELSE <<"/">> \o FlattenSeq([i \in 1 .. Len(names) |-> <<"/", names[i]>>])
LocatorText(l) == ServerText(l.names) \o IF l.path = <<>> THEN <<>> ELSE PathText(l.path[1])

ItemText(item) ==
    CASE item.kind = "same" -> <<".">>
      [] item.kind = "up" -> <<".", ".">>
      [] OTHER -> <<item.name>>

\* A part follows "." or ".." as "/.", the other items as ".".
FurtherText(items) ==
    FlattenSeq([i \in 1 .. Len(items) |->
        (IF i > 1 /\ (items[i].kind # "part" \/ items[i - 1].kind \in {"same", "up"})
         THEN <<"/">> ELSE <<>>)
        \o (IF items[i].kind = "part" THEN <<".">> ELSE <<>>) \o ItemText(items[i])])

Parser(l) == parseResourceLocator(LocatorText(l))

ParserInit ==
    /\ locator \in Locators
    /\ further = <<>> /\ resolved = <<>>

resolvePath(items) ==
    /\ further = <<>>
    /\ further' = items
    /\ resolved' = resolveAgainst(Parser(locator), FurtherText(items))
    /\ UNCHANGED locator

ParserNext == \E items \in FurtherPaths : resolvePath(items)

-----------------------------------------------------------------------------
\* Properties

\* What a path means: "." stays, ".." goes up but not beyond the root.
Meant(own, items) ==
    FoldLeft(LAMBDA path, item :
        CASE item.kind = "same" -> path
          [] item.kind = "up" -> IF path = <<>> THEN path ELSE Front(path)
          [] OTHER -> Append(path, item),
        own, items)

\* What resolve() is not up to, see its notes: parts of the root, the root as the
\* result, a path that ends in "/.", and one that ends in ".." when components of
\* its own are left on the stack.
OutOfReach(own, items) ==
    \/ own # <<>> /\ own[1].kind = "part"
    \/ Meant(own, items) = <<>>
    \/ items # <<>> /\ Last(items) = Same

\* A locator that is taken apart and put together is the same, its parent is what
\* ".." means, and however names, parts, "." and ".." follow each other in a path,
\* it resolves to what it means, within the same server.
LocatorsResolve ==
    LET parser == Parser(locator) IN
    /\ parser.type # "INVALID" /\ KsString(parser) = LocatorText(locator)
    /\ \A own \in Range(locator.path) :
          /\ getParent(parser) = LocatorText([locator EXCEPT !.path = <<Meant(own, <<Up>>)>>])
          /\ further # <<>> /\ ~ OutOfReach(own, further) =>
                \/ resolved = LocatorText([locator EXCEPT !.path = <<Meant(own, further)>>])
                \/ resolved = Undefined /\ Last(further) = Up
=============================================================================
