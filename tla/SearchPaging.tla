----------------------------- MODULE SearchPaging -----------------------------
(***************************************************************************)
(* Listing a mailbox page by page: the page token of the service, which    *)
(* binds the token of the provider, and the way each provider goes through *)
(* its candidates, filters them and stops at a full page or at the scan    *)
(* limit, while mail arrives and goes.                                     *)
(*                                                                         *)
(* Messages are numbered in the order they arrived; a list has the newest  *)
(* first.  The servers' own paging is modelled as the code uses it: Gmail  *)
(* continues after the last message it listed, Graph after a number of     *)
(* messages, IMAP has UIDs in each folder.                                 *)
(***************************************************************************)
EXTENDS Integers, Sequences, FiniteSets, SequencesExt

CONSTANTS Arrived,       \* messages that may ever arrive: 1..Arrived
          Batch,         \* Gmail's MAX_PAGE_SIZE
          PageSize,      \* page sizes readers ask for
          ScanLimit,     \* candidates one call inspects (1,000 in the code)
          MailAccount,   \* accounts of the instance; the mailbox is one of them
          WithAttachment,  \* the messages that have one
          LastFolder,    \* IMAP folders, in the order they are searched: 1..LastFolder
          Filed          \* the folder each message is in

ASSUME PagingAssumption ==
  /\ Arrived \in Nat /\ Batch \in Nat \ {0} /\ ScanLimit \in Nat \ {0}
  /\ PageSize \subseteq 1..Batch
  /\ LastFolder \in Nat \ {0} /\ Filed \in [1..Arrived -> 1..LastFolder]

VARIABLES server,      \* "gmail", "outlook" or "imap"
          mail,        \* the messages in the mailbox
          newest,      \* the last one that arrived
          listing,     \* the call that lists
          reading      \* what its reader has of the pages so far

pagingVars == <<server, mail, newest, listing, reading>>

Mine == CHOOSE a \in MailAccount : TRUE
MailQuery == {"all", "attached"}
Folder == 1..LastFolder

Attached(m) == m \in WithAttachment
FolderOf(m) == Filed[m]
Matches(m, q) == q = "attached" => Attached(m)
LocalFilter(q) == q = "attached"

NewestFirst(s) ==
  CHOOSE list \in [1..Cardinality(s) -> s] : \A i, j \in 1..Cardinality(s) : i < j => list[i] > list[j]

\* Where a list goes on.  Gmail: ids already listed, then what is older than after;
\* Graph: skip messages from the start, then offset of that page; IMAP: a folder and a UID.
Beginning == [pending |-> <<>>, after |-> Arrived + 1, skip |-> 0, offset |-> 0, local |-> FALSE,
          folder |-> 1, upper |-> Arrived + 1]
NoToken == [account |-> Mine, query |-> "none", size |-> 0, inner |-> Beginning, live |-> FALSE]
NoListing == [at |-> "none", query |-> "none", size |-> 0, from |-> Beginning, todo |-> <<>>,
              items |-> <<>>, inspected |-> 0, more |-> FALSE]
NoReading == [query |-> "none", size |-> 0, shown |-> <<>>, token |-> NoToken, ended |-> FALSE,
              held |-> {}, changed |-> FALSE, limited |-> FALSE]

PagingInit ==
  /\ server \in {"gmail", "outlook", "imap"}
  /\ newest \in 0..Arrived /\ mail = 1..newest
  /\ listing = NoListing /\ reading = NoReading

------------------------------------------------------------------------------
(* The mailbox, external. *)

MailArrives ==
  /\ newest < Arrived /\ newest' = newest + 1 /\ mail' = mail \cup {newest'}
  /\ reading' = [reading EXCEPT !.changed = TRUE]
  /\ UNCHANGED <<server, listing>>

MailGoes ==
  /\ \E m \in mail : mail' = mail \ {m}
  /\ reading' = [reading EXCEPT !.changed = TRUE, !.held = @ \cap mail']
  /\ UNCHANGED <<server, newest, listing>>

------------------------------------------------------------------------------
(* listMessages of the service *)

Binds(token, account, query, size) ==
  token.live /\ token.account = account /\ token.query = query /\ token.size = size

StartsListing(query, size, from) ==
  listing' = [NoListing EXCEPT !.at = "asks", !.query = query, !.size = size, !.from = from]

ListFirst ==
  /\ listing.at = "none"
  /\ \E q \in MailQuery, n \in PageSize :
       /\ StartsListing(q, n, [Beginning EXCEPT !.local = LocalFilter(q)])
       /\ reading' = [NoReading EXCEPT !.query = q, !.size = n, !.held = mail]
  /\ UNCHANGED <<server, mail, newest>>

\* The token comes back with whatever account, query and size the reader names; a request
\* that it is not bound to is refused.
ListNext ==
  /\ listing.at = "none" /\ reading.token # NoToken
  /\ \E q \in MailQuery, n \in PageSize, a \in MailAccount :
       /\ Binds(reading.token, a, q, n)
       /\ StartsListing(q, n, reading.token.inner)
       /\ reading' = [reading EXCEPT !.query = q, !.size = n]
  /\ UNCHANGED <<server, mail, newest>>

\* An hour passes, or the instance's key is replaced.
TokenExpires ==
  /\ reading.token.live /\ reading' = [reading EXCEPT !.token.live = FALSE]
  /\ UNCHANGED <<server, mail, newest, listing>>

\* A page is answered: with the place to go on from, or as the last one.
Page(items, more, inner, limited) ==
  /\ listing' = NoListing
  /\ reading' = [reading EXCEPT !.shown = @ \o items, !.ended = ~more, !.limited = limited,
       !.token = IF more THEN [account |-> Mine, query |-> listing.query, size |-> listing.size,
                               inner |-> inner, live |-> TRUE] ELSE NoToken]
  /\ UNCHANGED <<server, mail, newest>>

Full(items) == Len(items) = listing.size
AtLimit(inspected) == inspected >= ScanLimit
ScanLimited(items, inspected, more) == more /\ AtLimit(inspected) /\ ~Full(items)

ListingFails ==
  /\ listing.at # "none" /\ listing' = NoListing
  /\ UNCHANGED <<server, mail, newest, reading>>

------------------------------------------------------------------------------
(* Gmail *)

Older(m) == {x \in mail : x < m}
FirstOf(s, n) == SubSeq(NewestFirst(s), 1, IF Cardinality(s) < n THEN Cardinality(s) ELSE n)
Least(a, b) == IF a < b THEN a ELSE b

\* messages.list, unless a token brought ids of an earlier batch.
GmailLists ==
  /\ server = "gmail" /\ listing.at = "asks"
  /\ LET local == LocalFilter(listing.query)
         size == Least(IF local THEN Batch ELSE listing.size - Len(listing.items),
                       ScanLimit - listing.inspected)
         ids == FirstOf(Older(listing.from.after), size)
     IN  IF listing.from.pending # <<>>
         THEN listing' = [listing EXCEPT !.at = "hydrates", !.todo = listing.from.pending, !.from.pending = <<>>]
         ELSE listing' = [listing EXCEPT !.at = "hydrates", !.todo = ids,
                !.from.after = IF ids = <<>> \/ Older(Last(ids)) = {} THEN 0 ELSE Last(ids)]
  /\ UNCHANGED <<server, mail, newest, reading>>

GmailHasMore == listing.from.after > 0

\* messages.get of the next candidate; one that is gone is passed over.
GmailHydrates ==
  /\ server = "gmail" /\ listing.at = "hydrates" /\ listing.todo # <<>> /\ ~Full(listing.items)
  /\ LET m == Head(listing.todo)
     IN  listing' = [listing EXCEPT !.todo = Tail(@), !.inspected = @ + 1,
           !.items = IF m \in mail /\ Matches(m, listing.query) THEN Append(@, m) ELSE @]
  /\ UNCHANGED <<server, mail, newest, reading>>

\* Mutant: the ids of the batch that the page had no room for are forgotten.
GmailBatchDoneForgets ==
  /\ server = "gmail" /\ listing.at = "hydrates" /\ (listing.todo = <<>> \/ Full(listing.items))
  /\ IF Full(listing.items) \/ AtLimit(listing.inspected) \/ ~GmailHasMore
     THEN Page(listing.items, GmailHasMore, listing.from,
               ScanLimited(listing.items, listing.inspected, GmailHasMore))
     ELSE listing' = [listing EXCEPT !.at = "asks"] /\ UNCHANGED <<server, mail, newest, reading>>

GmailBatchDone ==
  /\ server = "gmail" /\ listing.at = "hydrates" /\ (listing.todo = <<>> \/ Full(listing.items))
  /\ LET more == listing.todo # <<>> \/ GmailHasMore
         inner == [listing.from EXCEPT !.pending = listing.todo]
     IN  IF Full(listing.items) \/ AtLimit(listing.inspected) \/ ~GmailHasMore
         THEN Page(listing.items, more, inner, ScanLimited(listing.items, listing.inspected, more))
         ELSE listing' = [listing EXCEPT !.at = "asks"] /\ UNCHANGED <<server, mail, newest, reading>>

------------------------------------------------------------------------------
(* Outlook *)

\* A page of Graph's list; its filter is the token's when there is one.
OutlookLists ==
  /\ server = "outlook" /\ listing.at = "asks"
  /\ LET list == NewestFirst(mail)
         page == SubSeq(list, listing.from.skip + 1, Least(listing.from.skip + listing.size, Len(list)))
     IN  IF listing.from.offset > Len(page)
         THEN listing' = NoListing
         ELSE listing' = [listing EXCEPT !.at = "reads", !.more = Len(list) > listing.from.skip + listing.size,
                !.todo = SubSeq(page, listing.from.offset + 1, Len(page))]
  /\ UNCHANGED <<server, mail, newest, reading>>

\* A candidate that is gone by the time its attachments are asked for fails the call.
OutlookReads ==
  /\ server = "outlook" /\ listing.at = "reads"
  /\ listing.todo # <<>> /\ ~Full(listing.items) /\ ~AtLimit(listing.inspected)
  /\ LET m == Head(listing.todo)
     IN  IF listing.from.local /\ m \notin mail
         THEN listing' = NoListing
         ELSE listing' = [listing EXCEPT !.todo = Tail(@), !.inspected = @ + 1, !.from.offset = @ + 1,
                !.items = IF listing.from.local => Attached(m) THEN Append(@, m) ELSE @]
  /\ UNCHANGED <<server, mail, newest, reading>>

OutlookPageDone ==
  /\ server = "outlook" /\ listing.at = "reads"
  /\ listing.todo = <<>> \/ Full(listing.items) \/ AtLimit(listing.inspected)
  /\ LET next == [listing.from EXCEPT !.skip = @ + listing.size, !.offset = 0]
         more == listing.todo # <<>> \/ listing.more
     IN  IF Full(listing.items) \/ AtLimit(listing.inspected) \/ ~listing.more
         THEN Page(listing.items, (Full(listing.items) \/ AtLimit(listing.inspected)) /\ more,
                   IF listing.todo # <<>> THEN listing.from ELSE next,
                   ScanLimited(listing.items, listing.inspected, more))
         ELSE listing' = [listing EXCEPT !.at = "asks", !.from = next] /\ UNCHANGED <<server, mail, newest, reading>>

------------------------------------------------------------------------------
(* IMAP *)

\* SEARCH in the folder whose turn it is, up to the UID of the cursor.
ImapSearches ==
  /\ server = "imap" /\ listing.at = "asks"
  /\ LET uids == {m \in mail : FolderOf(m) = listing.from.folder /\ m <= listing.from.upper}
     IN  listing' = [listing EXCEPT !.at = "fetches", !.todo = NewestFirst(uids)]
  /\ UNCHANGED <<server, mail, newest, reading>>

\* Mutant: the cursor names the last message of the page.
ImapFetchesAgain ==
  /\ server = "imap" /\ listing.at = "fetches" /\ listing.todo # <<>>
  /\ LET m == Head(listing.todo)
         here == [listing.from EXCEPT !.upper = IF listing.items = <<>> THEN m ELSE Last(listing.items)]
         fits == m \in mail /\ Matches(m, listing.query)
     IN  IF AtLimit(listing.inspected) \/ (fits /\ Full(listing.items))
         THEN Page(listing.items, TRUE, here, ScanLimited(listing.items, listing.inspected, TRUE))
         ELSE /\ listing' = [listing EXCEPT !.todo = Tail(@), !.inspected = @ + 1,
                   !.items = IF fits THEN Append(@, m) ELSE @]
              /\ UNCHANGED <<server, mail, newest, reading>>

\* The limit is looked at before a candidate, the page only when the candidate would be on it.
ImapFetches ==
  /\ server = "imap" /\ listing.at = "fetches" /\ listing.todo # <<>>
  /\ LET m == Head(listing.todo)
         here == [listing.from EXCEPT !.upper = m]
         fits == m \in mail /\ Matches(m, listing.query)
     IN  IF AtLimit(listing.inspected) \/ (fits /\ Full(listing.items))
         THEN Page(listing.items, TRUE, here,
                   ScanLimited(listing.items, listing.inspected, TRUE))
         ELSE /\ listing' = [listing EXCEPT !.todo = Tail(@), !.inspected = @ + 1,
                   !.items = IF fits THEN Append(@, m) ELSE @]
              /\ UNCHANGED <<server, mail, newest, reading>>

ImapFolderDone ==
  /\ server = "imap" /\ listing.at = "fetches" /\ listing.todo = <<>>
  /\ IF listing.from.folder + 1 \in Folder
     THEN /\ listing' = [listing EXCEPT !.at = "asks", !.from.folder = @ + 1, !.from.upper = Arrived + 1]
          /\ UNCHANGED <<server, mail, newest, reading>>
     ELSE Page(listing.items, FALSE, Beginning, FALSE)

------------------------------------------------------------------------------

PagingNext ==
  \/ MailArrives \/ MailGoes \/ ListFirst \/ ListNext \/ TokenExpires \/ ListingFails
  \/ GmailLists \/ GmailHydrates \/ GmailBatchDone
  \/ OutlookLists \/ OutlookReads \/ OutlookPageDone
  \/ ImapSearches \/ ImapFetches \/ ImapFolderDone

PagingSpec == PagingInit /\ [][PagingNext]_pagingVars

------------------------------------------------------------------------------
(* Properties *)

PagingTypeOK ==
  /\ mail \subseteq 1..newest /\ newest \in 0..Arrived
  /\ listing.inspected \in 0..ScanLimit /\ Len(listing.items) <= Batch
  /\ Len(listing.from.pending) <= Batch /\ listing.from.skip \in Nat
  /\ listing.at \in {"none", "asks", "hydrates", "reads", "fetches"}
  /\ ToSet(reading.shown) \subseteq 1..newest /\ reading.token.live \in BOOLEAN

\* Graph pages by counting, so mail that comes or goes between two pages shifts them.
Steadily == server = "outlook" => ~reading.changed

\* Whoever follows the tokens to the last page has seen every message that matched and was
\* there all the while, across batches, folders, full pages and scan limits
\* (gmailProvider.ts:311, outlookProvider.ts:532, imapProvider.ts:484).
NothingMissed ==
  reading.ended /\ Steadily => \A m \in reading.held : Matches(m, reading.query) => m \in ToSet(reading.shown)

\* Nobody who follows the tokens sees a message twice, also when new mail arrives meanwhile.
NothingTwice == Steadily => IsInjective(reading.shown)

\* Every message shown matches the query of the request it answers, also when the pages before
\* were asked for with another (searchCursor.ts:119): Graph's filter comes from the token.
ShownMatch == \A i \in DOMAIN reading.shown : Matches(reading.shown[i], reading.query)

Answered == listing.at # "none" /\ listing'.at = "none" /\ reading' # reading

\* A page that is not full ends the list unless it says that the scan was limited
\* (docs/public/pages/email-search.md:80).
ShortPagesEnd ==
  [][Answered => \/ Len(reading'.shown) - Len(reading.shown) = listing.size
                 \/ reading'.limited \/ reading'.ended]_pagingVars

\* What is left from a place on.
Left(inner) ==
  CASE server = "gmail" -> Len(inner.pending) + (IF inner.after > 0 THEN Cardinality(Older(inner.after)) ELSE 0)
    [] server = "outlook" -> Cardinality(mail) - inner.skip - inner.offset
    [] server = "imap" ->
         Cardinality({m \in mail : FolderOf(m) > inner.folder \/ (FolderOf(m) = inner.folder /\ m <= inner.upper)})

\* Every page with a token brings its reader forward, empty ones too: following the tokens
\* through a mailbox that does not change ends.
PagesAdvance ==
  [][Answered /\ ~reading'.ended /\ ~reading.changed =>
       Left(reading'.token.inner) < Left(reading.token.inner)]_pagingVars

\* Together: following the tokens shows what matches, all of it, once.
ExactlyTheMatches == PagingTypeOK /\ NothingMissed /\ NothingTwice /\ ShownMatch

\* And every answer brings the reader forward or says why it stops.
AnswersGoOn == ShortPagesEnd /\ PagesAdvance
=============================================================================
