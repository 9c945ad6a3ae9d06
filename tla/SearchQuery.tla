------------------------------ MODULE SearchQuery ------------------------------
(***************************************************************************)
(* The search language: what is typed becomes words, the words a query,    *)
(* the query joins the structured filters of the request and is put to a   *)
(* mail server, partly in the server's language and partly to a filter     *)
(* applied to what the server finds.                                       *)
(*                                                                         *)
(* A text is a sequence of symbols.  An operator, a date, a role or a word *)
(* that the code tells from others is one symbol; "a" and "b" stand for    *)
(* what has no meaning.  A query maps the fields it has to their values.   *)
(***************************************************************************)
EXTENDS Integers, Sequences, FiniteSets
LOCAL INSTANCE SequencesExt

CONSTANTS MaxWords     \* words typed

VARIABLES typed,       \* the words typed so far
          found,       \* what parseEmailSearch makes of it
          asked        \* the query of the request, once merged

queryVars == <<typed, found, asked>>

Quote == "quote"
Space == "space"
Backslash == "backslash"

Roles == {"inbox", "trash", "all"}
FlagOf == [is_read |-> <<"read", TRUE>>, is_unread |-> <<"read", FALSE>>,
           has_attachment |-> <<"hasAttachment", TRUE>>, no_attachment |-> <<"hasAttachment", FALSE>>]
OperatorOf == [from_ |-> "from", in_ |-> "folder", after_ |-> "after", before_ |-> "before"]
SymbolOf(field) == CHOOSE op \in DOMAIN OperatorOf : OperatorOf[op] = field
FlagSymbol(field, value) == <<CHOOSE f \in DOMAIN FlagOf : FlagOf[f] = <<field, value>>>>
Typo == "form_"
DayOf == [day1 |-> 1, day2 |-> 2]

Text == {"folder", "text", "from", "after", "before", "rawProviderQuery"}
Field == Text \cup {"read", "hasAttachment"}
NoQuery == [f \in {} |-> TRUE]
With(query, field, value) == [f \in DOMAIN query \cup {field} |-> IF f = field THEN value ELSE query[f]]
Without(query, fields) == [f \in DOMAIN query \ fields |-> query[f]]
Only(query, fields) == [f \in DOMAIN query \cap fields |-> query[f]]

------------------------------------------------------------------------------
(* Texts *)

TrimLeft(s) == LET here == {i \in DOMAIN s : s[i] # Space}
               IN  IF here = {} THEN <<>> ELSE SubSeq(s, CHOOSE i \in here : \A j \in here : i <= j, Len(s))
Stripped(s) == Reverse(TrimLeft(Reverse(TrimLeft(s))))

\* The words between spaces, and a text with one space between its words.
Terms(s) ==
  LET Reads(words, c) ==
        IF c = Space THEN Append(words, <<>>) ELSE [words EXCEPT ![Len(words)] = Append(@, c)]
  IN  SelectSeq(FoldLeft(Reads, <<<<>>>>, s), LAMBDA w : w # <<>>)
Joined(words) == FoldLeft(LAMBDA s, w : IF s = <<>> THEN w ELSE s \o <<Space>> \o w, <<>>, words)
Collapsed(s) == Joined(Terms(s))

ValidDate(s) == Len(s) = 1 /\ s[1] \in DOMAIN DayOf
Day(s) == DayOf[s[1]]
BadRange(q) ==
  /\ {"after", "before"} \subseteq DOMAIN q /\ ValidDate(q.after) /\ ValidDate(q.before)
  /\ Day(q.after) >= Day(q.before)

------------------------------------------------------------------------------
(* normalizeQuery and mergeEmailQueries *)

Normalized(q) ==
  [f \in DOMAIN q |-> IF f = "text" THEN Collapsed(q[f]) ELSE IF f \in Text THEN Stripped(q[f]) ELSE q[f]]

Portable(q) ==
  "rawProviderQuery" \notin DOMAIN q /\ ("folder" \in DOMAIN q => Len(q.folder) = 1 /\ q.folder[1] \in Roles)

Acceptable(q) ==
  LET n == Normalized(q)
  IN  /\ \A f \in DOMAIN q \cap Text : n[f] # <<>>
      /\ ~{"text", "rawProviderQuery"} \subseteq DOMAIN q
      /\ \A f \in DOMAIN q \cap {"after", "before"} : ValidDate(n[f])
      /\ ~BadRange(n)

Refused == [success |-> FALSE, query |-> NoQuery]
NormalizeEmailQuery(q) ==
  IF Acceptable(q) THEN [success |-> TRUE, query |-> Normalized(q)] ELSE Refused

MergeEmailQueries(parsed, structured) ==
  IF DOMAIN parsed \cap DOMAIN structured # {} THEN Refused
  ELSE NormalizeEmailQuery([f \in DOMAIN parsed \cup DOMAIN structured |->
         IF f \in DOMAIN parsed THEN parsed[f] ELSE structured[f]])

------------------------------------------------------------------------------
(* lex and parseEmailSearch *)

NoLexeme == [value |-> <<>>, literal |-> FALSE, quoted |-> FALSE]
Opened == [done |-> <<>>, here |-> NoLexeme, in |-> FALSE, inQuote |-> FALSE, escape |-> FALSE]

\* One symbol: a space outside quotes ends a lexeme; inside them a backslash escapes a quote
\* or a backslash and is itself otherwise.
ReadSymbol(st, c) ==
  LET kept == IF st.escape THEN Append(st.here.value, Backslash) ELSE st.here.value
  IN  IF st.escape /\ c \in {Quote, Backslash}
      THEN [st EXCEPT !.escape = FALSE, !.here.value = Append(@, c)]
      ELSE IF c = Quote
      THEN [st EXCEPT !.in = TRUE, !.inQuote = ~@, !.escape = FALSE,
              !.here = [value |-> kept, quoted |-> TRUE, literal |-> @.literal \/ ~st.in]]
      ELSE IF c = Space /\ ~st.inQuote
      THEN [Opened EXCEPT !.done = IF st.in THEN Append(st.done, st.here) ELSE st.done]
      ELSE IF c = Backslash /\ st.inQuote
      THEN [st EXCEPT !.escape = TRUE, !.here.value = kept]
      ELSE [st EXCEPT !.in = TRUE, !.escape = FALSE, !.here.value = Append(kept, c)]

\* The lexemes, and whether the last one misses its closing quote.
LastLexeme(end) == IF end.escape THEN [end.here EXCEPT !.value = Append(@, Backslash)] ELSE end.here
Lexed(end) ==
  [lexemes |-> IF end.in THEN Append(end.done, LastLexeme(end)) ELSE end.done, open |-> end.inQuote]
Lex(s) == Lexed(FoldLeft(ReadSymbol, Opened, s))

NothingRead == [query |-> NoQuery, tokens |-> <<>>, text |-> <<>>, assigned |-> NoQuery, errors |-> FALSE,
                warned |-> FALSE]
Token(kind, field) == [kind |-> kind, field |-> field]
Invalid(acc) == [acc EXCEPT !.tokens = Append(@, Token("invalid", "none")), !.errors = TRUE]
Literal(acc, value) ==
  [acc EXCEPT !.tokens = Append(@, Token("text", "text")), !.text = IF value = <<>> THEN @ ELSE Append(@, value)]
Assign(acc, field, value) ==
  IF field \in DOMAIN acc.query THEN Invalid(acc)
  ELSE [acc EXCEPT !.query = With(@, field, value), !.assigned = With(@, field, Len(acc.tokens) + 1),
                   !.tokens = Append(@, Token("filter", field))]

ReadLexeme(acc, lexeme) ==
  LET value == lexeme.value
      field == OperatorOf[value[1]]
      rest == Tail(value)
  IN  IF lexeme.literal
      THEN IF value = <<>> THEN Invalid(acc) ELSE Literal(acc, value)
      ELSE IF Len(value) = 1 /\ value[1] \in DOMAIN FlagOf
      THEN Assign(acc, FlagOf[value[1]][1], FlagOf[value[1]][2])
      ELSE IF value # <<>> /\ value[1] \in DOMAIN OperatorOf
      THEN IF \/ rest = <<>>
              \/ field = "folder" /\ ~(Len(rest) = 1 /\ rest[1] \in Roles)
              \/ field \in {"after", "before"} /\ ~ValidDate(rest)
           THEN Invalid(acc)
           ELSE Assign(acc, field, rest)
      ELSE LET said == Literal(acc, value)
           IN  [said EXCEPT !.warned = @ \/ (~lexeme.quoted /\ value # <<>> /\ value[1] = Typo)]

\* Of two dates that contradict each other the one typed later is rejected.
Ranged(acc) ==
  LET later == IF acc.assigned.after > acc.assigned.before THEN "after" ELSE "before"
  IN  IF BadRange(acc.query)
      THEN [acc EXCEPT !.query = Without(@, {later}), !.errors = TRUE,
                       !.tokens = [@ EXCEPT ![acc.assigned[later]] = Token("invalid", "none")]]
      ELSE acc

\* An unclosed quote makes its lexeme, the last one, invalid whatever it holds.
ReadAll(lexed) ==
  IF lexed.open THEN Invalid(FoldLeft(ReadLexeme, NothingRead, Front(lexed.lexemes)))
  ELSE FoldLeft(ReadLexeme, NothingRead, lexed.lexemes)

Worded(acc) ==
  IF acc.text = <<>> THEN acc ELSE [acc EXCEPT !.query = With(@, "text", Collapsed(Joined(acc.text)))]

Judged(acc) ==
  LET valid == ~acc.errors /\ Portable(acc.query) /\ Acceptable(acc.query)
  IN  [valid |-> valid, query |-> IF valid THEN Normalized(acc.query) ELSE acc.query,
       tokens |-> acc.tokens, warned |-> acc.warned]

ParseEmailSearch(s) == Judged(Ranged(Worded(ReadAll(Lex(s)))))

------------------------------------------------------------------------------
(* formatEmailSearch *)

\* Mutant: backslashes are not escaped.
QuotesOnly(s) ==
  <<Quote>> \o FlattenSeq([i \in DOMAIN s |-> IF s[i] = Quote THEN <<Backslash, Quote>> ELSE <<s[i]>>]) \o <<Quote>>

Quoted(s) ==
  <<Quote>> \o FlattenSeq([i \in DOMAIN s |->
     IF s[i] \in {Quote, Backslash} THEN <<Backslash, s[i]>> ELSE <<s[i]>>]) \o <<Quote>>

FormatEmailSearch(q) ==
  LET Part(field) ==
        IF field \notin DOMAIN q THEN <<>>
        ELSE IF field = "text" THEN Quoted(q.text)
        ELSE IF field = "from" THEN <<SymbolOf(field)>> \o Quoted(q.from)
        ELSE IF field \in {"read", "hasAttachment"} THEN FlagSymbol(field, q[field])
        ELSE <<SymbolOf(field)>> \o q[field]
      parts == [i \in 1..7 |-> Part(<<"folder", "from", "read", "hasAttachment", "after", "before", "text">>[i])]
  IN  Joined(SelectSeq(parts, LAMBDA part : part # <<>>))

------------------------------------------------------------------------------
(* What an account can search for *)

Capable(fields, roles, native) == [filters |-> fields, folderRoles |-> roles, nativeQuery |-> native]
Filters == Field \ {"rawProviderQuery"}
Gmail == Capable(Filters, [r \in Roles |-> "available"], [syntax |-> "gmail", availability |-> "available"])
\* Before the connection nothing is known of an IMAP server; then its folders and extensions are.
Imap == [Gmail EXCEPT !.folderRoles = [r \in Roles |-> "unknown"], !.nativeQuery.availability = "unknown"]
ImapConnected(roles) ==
  [Imap EXCEPT !.folderRoles = [r \in Roles |-> IF r \in roles THEN "available" ELSE "unavailable"],
               !.nativeQuery.availability = "unavailable"]
Outlook == [Gmail EXCEPT !.nativeQuery.syntax = "outlook-kql"]
Accounts == {Gmail, Outlook, Imap, ImapConnected({"inbox", "all"}), ImapConnected(Roles)}
NoNative == [syntax |-> "none", availability |-> "unavailable"]

RequiredSearchFilters(q) ==
  {[filter |-> f, role |-> IF f = "folder" THEN q.folder[1] ELSE "none"] : f \in DOMAIN q \ {"rawProviderQuery"}}

Unsupported(capability, required) ==
  {r \in required : r.filter \notin capability.filters
                     \/ (r.filter = "folder" /\ capability.folderRoles[r.role] = "unavailable")}
Unknown(capability, required) ==
  {r \in required : r.filter = "folder" /\ "folder" \in capability.filters
                     /\ capability.folderRoles[r.role] = "unknown"}
SupportsPortableEmailQuery(capability, q) ==
  LET required == RequiredSearchFilters(q)
  IN  Unsupported(capability, required) = {} /\ Unknown(capability, required) = {}

\* What is unknown is left to the server.
AssertSearchCapabilities(capability, q) ==
  LET custom == "folder" \in DOMAIN q /\ ~Portable(Only(q, {"folder"}))
  IN  /\ Unsupported(capability, RequiredSearchFilters(IF custom THEN Without(q, {"folder"}) ELSE q)) = {}
      /\ custom => "folder" \in capability.filters
      /\ "rawProviderQuery" \in DOMAIN q => capability.nativeQuery.availability # "unavailable"

IntersectAvailability(values) ==
  IF "unavailable" \in values THEN "unavailable" ELSE IF "unknown" \in values THEN "unknown" ELSE "available"

IntersectSearchCapabilities(all) ==
  Capable({f \in Filters : \A c \in all : f \in c.filters},
          [r \in Roles |-> IntersectAvailability({c.folderRoles[r] : c \in all})],
          IF Cardinality({c.nativeQuery.syntax : c \in all}) = 1
          THEN [syntax |-> (CHOOSE c \in all : TRUE).nativeQuery.syntax,
                availability |-> IntersectAvailability({c.nativeQuery.availability : c \in all})]
          ELSE NoNative)

------------------------------------------------------------------------------
(* What is put to a server, and what is looked at afterwards.  A value in quotes reaches *)
(* the server as that value.                                                             *)

ToGmailQuery(q) == Without(q, {"hasAttachment"})

\* Graph takes either a search or a filter; its attachments are those that are not inline.
\* A rawProviderQuery is an atom, true or false of a message.  The code joins it to the
\* other clauses with AND and no parentheses, so one that holds an OR of its own means
\* something else there: what a raw query says is left to who writes it.
Searched == {"text", "from", "after", "before", "rawProviderQuery"}
ToGraphQuery(q) ==
  IF DOMAIN q \cap Searched # {} THEN Only(q, Searched \cup {"folder"})
  ELSE IF "hasAttachment" \in DOMAIN q /\ ~q.hasAttachment THEN Without(q, {"hasAttachment"}) ELSE q

\* Mutant: the server is asked for the very days.
ToImapSearchesExact(q) ==
  LET rest == Without(q, {"text", "hasAttachment"})
      dated == [f \in DOMAIN rest |-> IF f \in {"after", "before"} THEN Day(rest[f]) ELSE rest[f]]
  IN  IF "text" \in DOMAIN q THEN {With(dated, "text", term) : term \in ToSet(Terms(q.text))} ELSE {dated}

\* One search for each word; a day more at both ends, as the server's dates are its own.
ToImapSearches(q) ==
  LET rest == Without(q, {"text", "hasAttachment"})
      dated == [f \in DOMAIN rest |-> IF f = "after" THEN Day(rest[f]) - 1
                                     ELSE IF f = "before" THEN Day(rest[f]) + 1 ELSE rest[f]]
  IN  IF "text" \in DOMAIN q THEN {With(dated, "text", term) : term \in ToSet(Terms(q.text))} ELSE {dated}

LocalFilterOf(server, q) ==
  Only(q, {"hasAttachment", "after", "before"} \cup IF server = "outlook" THEN {"read"} ELSE {})

------------------------------------------------------------------------------
(* Mail, and what a server finds of it, external. *)

Hours == 24
Zone == {-12, 14}
Message == [words : {{<<"a">>}, {<<"a">>, <<"b">>}}, from : {<<"a">>, <<"b">>}, read : BOOLEAN,
            attachment : {"none", "inline", "file"}, folder : {"inbox", "trash"},
            at : {Hours - 1, Hours, 2 * Hours - 1, 2 * Hours}]

InFolder(m, q) ==
  IF "folder" \notin DOMAIN q \/ q.folder = <<"all">> THEN m.folder # "trash" ELSE q.folder = <<m.folder>>
Native(m) == m.read

\* What a query means (email-search.md): every word is in the message, dates are UTC dates, an
\* attachment is one that is not inline, and trash is searched only when asked for.
Meaning(q, m) ==
  /\ InFolder(m, q)
  /\ "text" \in DOMAIN q => ToSet(Terms(q.text)) \subseteq m.words
  /\ "from" \in DOMAIN q => q.from = m.from
  /\ "read" \in DOMAIN q => q.read = m.read
  /\ "hasAttachment" \in DOMAIN q => q.hasAttachment = (m.attachment = "file")
  /\ "after" \in DOMAIN q => m.at >= Day(q.after) * Hours
  /\ "before" \in DOMAIN q => m.at < Day(q.before) * Hours
  /\ "rawProviderQuery" \in DOMAIN q => Native(m)

\* SEARCH on an IMAP server compares the date in its own zone.
ImapMatches(search, m, zone) ==
  LET day == (m.at + zone) \div Hours
      plain == Without(search, {"text", "after", "before"})
  IN  /\ Meaning(plain, m)
      /\ "text" \in DOMAIN search => search.text \in m.words
      /\ "after" \in DOMAIN search => day >= search.after
      /\ "before" \in DOMAIN search => day < search.before

ServerFinds(server, q, m) ==
  CASE server = "gmail" -> Meaning(ToGmailQuery(q), m)
    [] server = "outlook" -> Meaning(ToGraphQuery(q), m)
    [] server = "imap" -> \A zone \in Zone : \A search \in ToImapSearches(q) : ImapMatches(search, m, zone)

\* The folder was the server's business.
Passes(server, q, m) == Meaning(With(LocalFilterOf(server, q), "folder", <<m.folder>>), m)

------------------------------------------------------------------------------
(* The search box and the request *)

Words ==
  { <<"a">>, <<"b">>, <<Quote, "a", Space, Space, "b", Quote>>, <<Quote, "from_", "a", Quote>>,
    <<"from_", "a">>, <<"from_", Quote, "a", Space, "b", Quote>>, <<"from_">>, <<"from_", Quote, Space, Quote>>,
    <<"from_", Quote, "a">>, <<"in_", "trash">>, <<"in_", "a">>, <<"after_", "day1">>, <<"after_", "day2">>,
    <<"before_", "day1">>, <<"before_", "day2">>, <<"after_", "a">>, <<"is_read">>, <<"is_unread">>,
    <<"has_attachment">>, <<"no_attachment">>, <<Quote, "is_read", Quote>>, <<Quote, Quote>>,
    <<Quote, Space, Quote>>, <<Quote, Backslash, Quote, "a", Quote>>, <<Quote, "a", Backslash, "b", Quote>>,
    <<Quote, "a", Backslash, Backslash, Quote>>, <<Backslash, "a">>, <<Typo, "a">>, <<Quote, Typo, "a", Quote>>,
    <<"a", "from_">>, <<Quote, "a", Backslash, Quote>> }

Structured ==
  { NoQuery, With(NoQuery, "read", TRUE), With(NoQuery, "text", <<"a", Space, Space, "b", Space>>),
    With(NoQuery, "text", <<Space>>), With(NoQuery, "rawProviderQuery", <<"a">>),
    With(NoQuery, "before", <<Space, "day1">>), With(NoQuery, "folder", <<"trash">>), With(NoQuery, "folder", <<"a">>),
    With(NoQuery, "folder", <<"all">>), With(NoQuery, "hasAttachment", FALSE) }

QueryInit == typed = <<>> /\ found = ParseEmailSearch(<<>>) /\ asked = Refused

TypesWord ==
  /\ asked = Refused /\ Len(typed) < MaxWords
  /\ \E w \in Words : typed' = Append(typed, w)
  /\ found' = ParseEmailSearch(Joined(typed')) /\ UNCHANGED asked

\* The request carries the search and filters of its own.
AsksFor ==
  /\ asked = Refused /\ found.valid
  /\ \E q \in Structured : asked' = MergeEmailQueries(found.query, q)
  /\ UNCHANGED <<typed, found>>

StartsAnew == (typed # <<>> \/ asked # Refused) /\ typed' = <<>> /\ found' = ParseEmailSearch(<<>>) /\ asked' = Refused

QueryNext == TypesWord \/ AsksFor \/ StartsAnew
QuerySpec == QueryInit /\ [][QueryNext]_queryVars

------------------------------------------------------------------------------
(* Properties *)

\* A valid search, written out again, is the same search and warns of nothing, whatever
\* quotes, backslashes and operators its texts contain (search.ts:476-499).
WritesBack ==
  found.valid => LET again == ParseEmailSearch(FormatEmailSearch(found.query))
                 IN  again.valid /\ again.query = found.query /\ ~again.warned

\* What the client highlights is what is searched for: the filters among the tokens are the
\* query's, each once, also when the search is refused; an accepted one has no invalid token
\* (search.ts:350, :447).
TokensTellTheQuery ==
  LET fields == SelectSeq(found.tokens, LAMBDA t : t.kind = "filter")
  IN  /\ {fields[i].field : i \in DOMAIN fields} = DOMAIN found.query \ {"text"}
      /\ IsInjective(fields)
      /\ "text" \in DOMAIN found.query => \E i \in DOMAIN found.tokens : found.tokens[i].kind = "text"
      /\ found.valid => \A i \in DOMAIN found.tokens : found.tokens[i].kind # "invalid"

\* The query of an accepted request is one normal form, whichever half each part came from,
\* and its dates do not contradict each other: page tokens are bound to it and providers
\* normalize it again (search.ts:155, searchCursor.ts:31).
AcceptedIsNormal ==
  asked.success => NormalizeEmailQuery(asked.query) = asked /\ ~BadRange(asked.query)

\* What a server finds and the local filter lets pass is what the query means, at every
\* provider and in every time zone of an IMAP server (query.ts of each provider).
FindsWhatItMeans ==
  asked.success =>
    \A server \in {"gmail", "outlook", "imap"} : \A m \in Message :
       ServerFinds(server, asked.query, m) /\ Passes(server, asked.query, m) <=> Meaning(asked.query, m)

\* What several accounts are said to support together each of them supports, and a search all
\* of them support is not refused by any (search.ts:536, emailService.ts:95).
SupportedTogether ==
  asked.success /\ Portable(asked.query) =>
    \A all \in SUBSET Accounts \ {{}} :
      /\ SupportsPortableEmailQuery(IntersectSearchCapabilities(all), asked.query)
           <=> \A c \in all : SupportsPortableEmailQuery(c, asked.query)
      /\ \A c \in all : SupportsPortableEmailQuery(c, asked.query) => AssertSearchCapabilities(c, asked.query)

\* The language says one thing: typed, shown, written out, merged and bound to a token, a
\* search stays the same.
SearchesAgree == WritesBack /\ TokensTellTheQuery /\ AcceptedIsNormal /\ SupportedTogether
=============================================================================
