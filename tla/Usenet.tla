------------------------------- MODULE Usenet -------------------------------
(***************************************************************************)
(* The newsgroup as the provider offers it (external: modelled from how    *)
(* internal/nntp and internal/sync use it).  Articles arrive at the high   *)
(* end and expire at the low end; a number's content never changes.        *)
(***************************************************************************)
EXTENDS Spotnet

CONSTANTS
  Groups,         \* the group contents to consider, a subset of [Num -> Article]
  InitialLast,    \* the group's last article number at the start
  ExpireTo,       \* bound: `first' may grow up to this number
  EmptyIsError    \* an OVER on a range without articles answers 423, not an empty 224

ASSUME UsenetAssumption ==
  /\ Groups \subseteq [Num -> Article]
  /\ InitialLast \in 0 .. NumArticles
  /\ ExpireTo \in 1 .. NumArticles + 1
  /\ EmptyIsError \in BOOLEAN

VARIABLES
  group,   \* the article each number holds (fixed)
  first,   \* GroupInfo.First
  last     \* GroupInfo.Last

usenet == <<group, first, last>>

UsenetTypeOK ==
  /\ group \in [Num -> Article]
  /\ first \in 1 .. NumArticles + 1
  /\ last \in 0 .. NumArticles

UsenetInit ==
  /\ group \in Groups
  /\ first = 1
  /\ last = InitialLast

\* The server has article n right now: an OVER lists it and HEAD <n> answers 221.
OnServer(n) == n \in first .. last /\ group[n].kind # "none"

\* The article numbers an OVER from-to returns.
Overview(from, to) == {n \in Num : from <= n /\ n <= to /\ OnServer(n)}

\* Overview returns an error: on a 423/420 answer to an empty range.
EmptyOverview(from, to) == EmptyIsError /\ Overview(from, to) = {}

\* The spotter id HEAD finds in the X-User-Key header (NoSpotter: no usable key).
UserKey(n) == group[n].key

Arrive ==
  /\ last < NumArticles
  /\ last' = last + 1
  /\ UNCHANGED <<group, first>>

Expire ==
  /\ first < ExpireTo
  /\ first <= last
  /\ first' = first + 1
  /\ UNCHANGED <<group, last>>
=============================================================================
