-------------------------- MODULE LiveTypingProofs --------------------------
(***************************************************************************)
(* Theorems about LiveTyping, for texts of any length over any letters,    *)
(* any capacity of the channel and any faults.  First the types and the    *)
(* count of typed letters; then the path that the events on their way      *)
(* draw from the text at the cursor to the text of the recogniser, the     *)
(* invariant that it is there, and the refinement of LiveText.  The last   *)
(* three theorems suppose PrivateFinals = FALSE: a server that finalizes   *)
(* a text before a hybrid press is decided breaks what they state.         *)
(***************************************************************************)
EXTENDS LiveTyping, SequenceTheorems, FiniteSetTheorems, WellFoundedInduction, TLAPS

Sessions == [open : BOOLEAN, finalized : Text, typed_chars : Nat, partial : Text]

Surfaces == [session : Sessions, cursor : Text, lost : Nat]

-----------------------------------------------------------------------------
(* Texts and events.                                                       *)

LEMMA HeardIsText == Heard \subseteq Text
BY LiveTypingAssumption DEF Heard, Text

LEMMA ShorterProperties ==
  ASSUME NEW t \in Text, NEW n \in Nat
  PROVE  /\ Shorter(t, n) \in Text
         /\ Len(Shorter(t, n)) = IF n < Len(t) THEN Len(t) - n ELSE 0
<1> DEFINE m == IF n < Len(t) THEN Len(t) - n ELSE 0
<1>1. /\ m \in Nat /\ m <= Len(t) /\ 1 \in Int /\ m \in Int
      /\ \A i \in 1 .. m : t[i] \in Letters
  BY ElementOfSeq DEF Text
<1> HIDE DEF m
<1>2. /\ SubSeq(t, 1, m) \in Seq(Letters)
      /\ Len(SubSeq(t, 1, m)) = IF 1 <= m THEN m - 1 + 1 ELSE 0
  BY <1>1, SubSeqProperties
<1>3. m = IF 1 <= m THEN m - 1 + 1 ELSE 0
  BY <1>1
<1> QED
  BY <1>2, <1>3 DEF Shorter, Text, m

LEMMA RestProperties ==
  ASSUME NEW t \in Text, NEW n \in 0 .. Len(t)
  PROVE  Rest(t, n) \in Text /\ Len(Rest(t, n)) = Len(t) - n
<1>1. /\ n + 1 \in Int /\ Len(t) \in Int
      /\ \A i \in n + 1 .. Len(t) : t[i] \in Letters
  BY ElementOfSeq DEF Text
<1>2. /\ SubSeq(t, n + 1, Len(t)) \in Seq(Letters)
      /\ Len(SubSeq(t, n + 1, Len(t))) =
           IF n + 1 <= Len(t) THEN Len(t) - (n + 1) + 1 ELSE 0
  BY <1>1, SubSeqProperties, Zenon
<1> QED
  BY <1>1, <1>2 DEF Rest, Text

LEMMA CommonPrefixType ==
  ASSUME NEW s \in Text, NEW t \in Text
  PROVE  /\ CommonPrefix(s, t) \in 0 .. Len(s)
         /\ CommonPrefix(s, t) <= Len(t)
<1> DEFINE agree == {n \in DOMAIN s : IsPrefix(SubSeq(s, 1, n), t)}
<1>1. Len(s) \in Nat /\ Len(t) \in Nat /\ DOMAIN s = 1 .. Len(s)
  BY LenProperties DEF Text
<1>2. ASSUME NEW n \in agree
      PROVE  n \in 1 .. Len(s) /\ n \in 1 .. Len(t)
  <2>1. n \in 1 .. Len(s)
    BY <1>1
  <2>2. \A i \in 1 .. n : s[i] \in Letters
    BY <1>1, <2>1, ElementOfSeq DEF Text
  <2>3. Len(SubSeq(s, 1, n)) = n
    BY <2>1, <2>2, SubSeqProperties
  <2> QED
    BY <1>1, <2>1, <2>3 DEF IsPrefix
<1>3. ASSUME NEW k \in Nat, agree \subseteq 1 .. k
      PROVE  Cardinality(agree) \in Nat /\ Cardinality(agree) <= k
  <2>1. IsFiniteSet(1 .. k) /\ Cardinality(1 .. k) = k
    BY FS_Interval
  <2>2. agree \in SUBSET (1 .. k)
    BY <1>3
  <2> HIDE DEF agree
  <2> QED
    BY <2>1, <2>2, FS_Subset, FS_CardinalityType
<1>4. agree \subseteq 1 .. Len(s) /\ agree \subseteq 1 .. Len(t)
  BY <1>2
<1> HIDE DEF agree
<1>5. /\ Cardinality(agree) \in Nat
      /\ Cardinality(agree) <= Len(s) /\ Cardinality(agree) <= Len(t)
  BY <1>1, <1>3, <1>4
<1> QED
  BY <1>1, <1>5 DEF CommonPrefix, agree

LEMMA EventTypes ==
  /\ \A t \in Text : Partial(t) \in Events /\ Final(t) \in Events
  /\ \A n \in Nat, t \in Text : Replace(n, t) \in Events
  /\ Error \in Events /\ Ended \in Events
<1>1. <<>> \in Text
  BY DEF Text
<1> QED
  BY <1>1 DEF Events, Event, Partial, Final, Replace, Error, Ended

LEMMA FinalEventsType ==
  ASSUME NEW typed \in Text, NEW f \in Text
  PROVE  FinalEvents(typed, f) \in Seq(Events)
<1>0. Len(typed) \in Nat /\ Len(f) \in Nat
  BY DEF Text
<1>1. CASE IsPrefix(typed, f)
  <2>1. Len(typed) \in 0 .. Len(f)
    BY <1>0, <1>1 DEF IsPrefix
  <2>2. Final(Rest(f, Len(typed))) \in Events
    BY <2>1, RestProperties, EventTypes
  <2> QED
    BY <1>1, <2>2 DEF FinalEvents
<1>2. CASE ~IsPrefix(typed, f)
  <2> DEFINE n == CommonPrefix(typed, f)
  <2>1. n \in 0 .. Len(typed) /\ n \in 0 .. Len(f)
    BY <1>0, CommonPrefixType
  <2>2. Replace(Len(typed) - n, Rest(f, n)) \in Events
    BY <1>0, <2>1, RestProperties, EventTypes
  <2> HIDE DEF n
  <2> QED
    BY <1>2, <2>2 DEF FinalEvents, n
<1> QED
  BY <1>1, <1>2

LEMMA StillPartialType ==
  ASSUME NEW typed \in Text, NEW f \in Text
  PROVE  StillPartial(typed, f) \in Text
<1>1. CASE IsStrictPrefix(f, typed)
  <2>1. Len(f) \in 0 .. Len(typed)
    BY <1>1 DEF IsStrictPrefix, IsPrefix, Text
  <2> QED
    BY <1>1, <2>1, RestProperties DEF StillPartial
<1>2. CASE ~IsStrictPrefix(f, typed)
  BY <1>2 DEF StillPartial, Text
<1> QED
  BY <1>1, <1>2

-----------------------------------------------------------------------------
(* What an output may do: it only succeeds without typing the text if a    *)
(* clipboard driver took it.                                               *)

Delivers(t, given) ==
  /\ given.ok \in BOOLEAN
  /\ given.shown \in Text
  /\ "clipboard" \notin faults /\ given.ok => Len(t) <= Len(given.shown)
  /\ Truthful => given.shown = IF given.ok THEN t ELSE <<>>

LEMMA TextsJoined ==
  ASSUME NEW s \in Text, NEW t \in Text
  PROVE  /\ s \o t \in Text /\ Len(s \o t) = Len(s) + Len(t)
         /\ Len(s) \in Nat /\ Len(t) \in Nat
         /\ s \o <<>> = s /\ <<>> \o s = s
BY ConcatProperties, ConcatEmptySeq DEF Text

LEMMA PartsType ==
  ASSUME trailer \in Text, NEW t \in Text, NEW part \in Parts(t)
  PROVE  part \in Text /\ (Truthful => part = <<>>)
<1>1. CASE "halfway" \in faults
  <2>1. PICK n \in 0 .. Len(t \o trailer) : part = SubSeq(t \o trailer, 1, n)
    BY <1>1 DEF Parts
  <2>2. t \o trailer \in Text
    BY TextsJoined
  <2> DEFINE whole == t \o trailer
  <2>3. whole \in Text /\ n \in 0 .. Len(whole) /\ part = SubSeq(whole, 1, n)
    BY <2>1, <2>2
  <2> HIDE DEF whole
  <2>4. /\ 1 \in Int /\ n \in Int
        /\ \A i \in 1 .. n : whole[i] \in Letters
    BY <2>3, ElementOfSeq DEF Text
  <2>5. SubSeq(whole, 1, n) \in Seq(Letters)
    BY <2>4, SubSeqProperties
  <2> QED
    BY <1>1, <2>3, <2>5 DEF Text, Truthful
<1>2. CASE "halfway" \notin faults
  BY <1>2 DEF Parts, Text
<1> QED
  BY <1>1, <1>2

LEMMA DeliveriesDeliver ==
  ASSUME trailer \in Text, NEW t \in Text, NEW given \in Deliveries(t)
  PROVE  Delivers(t, given)
<1> DEFINE all == t \o trailer
<1>1. all \in Text /\ Len(t) <= Len(all) /\ Len(t) \in Nat /\ (Truthful => all = t)
  <2>1. /\ all \in Text /\ Len(all) = Len(t) + Len(trailer)
        /\ Len(t) \in Nat /\ Len(trailer) \in Nat /\ t \o <<>> = t
    BY TextsJoined
  <2>2. Truthful => all = t
    BY <2>1 DEF Truthful
  <2> HIDE DEF all
  <2> QED
    BY <2>1, <2>2
<1>2. \/ \E part \in Parts(t) : given = Delivery(TRUE, part \o all)
      \/ "clipboard" \in faults /\ \E part \in Parts(t) : given = Delivery(TRUE, part)
      \/ \E part \in Parts(t) : given = Delivery(FALSE, part)
  BY DEF Deliveries
<1> HIDE DEF all
<1>3. ASSUME NEW part \in Parts(t), given = Delivery(TRUE, part \o all)
      PROVE  Delivers(t, given)
  <2>1. part \in Text /\ (Truthful => part = <<>>)
    BY PartsType
  <2>2. /\ part \o all \in Text /\ Len(part \o all) = Len(part) + Len(all)
        /\ Len(part) \in Nat /\ Len(all) \in Nat /\ <<>> \o all = all
    BY <1>1, <2>1, TextsJoined
  <2>3. given.ok = TRUE /\ given.shown = part \o all
    BY <1>3 DEF Delivery
  <2>4. Len(t) <= Len(given.shown)
    BY <1>1, <2>2, <2>3
  <2>5. Truthful => given.shown = t
    BY <1>1, <2>1, <2>2, <2>3
  <2> QED
    BY <2>2, <2>3, <2>4, <2>5 DEF Delivers
<1>4. ASSUME NEW part \in Parts(t), given = Delivery(TRUE, part), "clipboard" \in faults
      PROVE  Delivers(t, given)
  BY <1>4, PartsType DEF Delivery, Delivers, Truthful
<1>5. ASSUME NEW part \in Parts(t), given = Delivery(FALSE, part)
      PROVE  Delivers(t, given)
  BY <1>5, PartsType DEF Delivery, Delivers
<1> QED
  BY <1>2, <1>3, <1>4, <1>5

-----------------------------------------------------------------------------
(* The operations of a session: they keep its type, what is lost of the    *)
(* user's text and, as far as the outputs allow, the relation between      *)
(* typed_chars and the letters at the cursor.                              *)

AtMost(at) == at.lost = 0 /\ at.session.typed_chars <= Len(at.cursor)

Counted(at) == at.session.typed_chars = Len(at.cursor)

Keeps(at, after) ==
  /\ after \in Surfaces
  /\ after.session.open = at.session.open
  /\ "clipboard" \notin faults /\ AtMost(at) => AtMost(after)
  /\ Truthful /\ Counted(at) => Counted(after)

LEMMA SurfaceParts ==
  \A s, c, l : /\ Surface(s, c, l).session = s /\ Surface(s, c, l).cursor = c
              /\ Surface(s, c, l).lost = l
BY DEF Surface

LEMMA SurfaceIs ==
  ASSUME NEW s, NEW c, NEW l, NEW at, at = Surface(s, c, l)
  PROVE  at.session = s /\ at.cursor = c /\ at.lost = l
BY DEF Surface

LEMMA SurfaceType ==
  ASSUME NEW s \in Sessions, NEW c \in Text, NEW l \in Nat
  PROVE  Surface(s, c, l) \in Surfaces
BY DEF Surface, Surfaces

(* What a text does to an open session, whether or not it commits it.      *)
LEMMA GivenKeeps ==
  ASSUME NEW at \in Surfaces, NEW t \in Text, NEW given, Delivers(t, given),
         NEW next \in Sessions, next.open = at.session.open,
         next.typed_chars = at.session.typed_chars + Len(t),
         NEW after,
         after = Surface(IF given.ok THEN next ELSE at.session, at.cursor \o given.shown, at.lost)
  PROVE  Keeps(at, after)
<1> DEFINE now == IF given.ok THEN next ELSE at.session
           n == at.session.typed_chars
           c == at.cursor
           shown == given.shown
<1>1. at.session \in Sessions /\ c \in Text /\ at.lost \in Nat /\ n \in Nat
  BY DEF Surfaces, Sessions
<1>2. shown \in Text /\ given.ok \in BOOLEAN
  BY DEF Delivers
<1>3. now \in Sessions /\ now.open = at.session.open
  BY <1>1, <1>2
<1>4. now.typed_chars = IF given.ok THEN n + Len(t) ELSE n
  BY <1>2
<1> HIDE DEF n, c, shown
<1>5. /\ c \o shown \in Text /\ Len(c \o shown) = Len(c) + Len(shown)
      /\ Len(c) \in Nat /\ Len(shown) \in Nat
  BY <1>1, <1>2, TextsJoined
<1>6. Len(t) \in Nat /\ Len(<<>>) = 0
  BY TextsJoined
<1>7. /\ after.session = now /\ after.cursor = c \o shown /\ after.lost = at.lost
      /\ after \in Surfaces
  <2>1. after = Surface(now, c \o shown, at.lost)
    BY DEF c, shown
  <2> HIDE DEF now
  <2>2. Surface(now, c \o shown, at.lost) \in Surfaces
    BY <1>1, <1>3, <1>5, SurfaceType
  <2> DEFINE l == at.lost
             longer == c \o shown
  <2>3. after = Surface(now, longer, l) /\ Surface(now, longer, l) \in Surfaces
    BY <2>1, <2>2
  <2> HIDE DEF l, longer
  <2>4. after.session = now /\ after.cursor = longer /\ after.lost = l
    BY <2>3, SurfaceIs
  <2> QED
    BY <2>3, <2>4 DEF l, longer
<1> HIDE DEF now
<1>8. ASSUME "clipboard" \notin faults, AtMost(at) PROVE AtMost(after)
  <2>1. at.lost = 0 /\ n <= Len(c)
    BY <1>8 DEF AtMost, n, c
  <2>2. given.ok => Len(t) <= Len(shown)
    BY <1>8 DEF Delivers, shown
  <2>3. now.typed_chars <= Len(c \o shown)
    BY <1>1, <1>2, <1>4, <1>5, <1>6, <2>1, <2>2
  <2> QED
    BY <1>7, <2>1, <2>3 DEF AtMost
<1>9. ASSUME Truthful, Counted(at) PROVE Counted(after)
  <2>1. n = Len(c)
    BY <1>9 DEF Counted, n, c
  <2>2. shown = IF given.ok THEN t ELSE <<>>
    BY <1>9 DEF Delivers, shown
  <2>3. now.typed_chars = Len(c \o shown)
    BY <1>1, <1>2, <1>4, <1>5, <1>6, <2>1, <2>2
  <2> QED
    BY <1>7, <2>3 DEF Counted
<1> QED
  BY <1>3, <1>7, <1>8, <1>9 DEF Keeps

LEMMA TypePartialDeltaKeeps ==
  ASSUME NEW at \in Surfaces, NEW t \in Text, NEW given, Delivers(t, given)
  PROVE  Keeps(at, TypePartialDelta(at, t, given))
<1>1. CASE t = <<>>
  BY <1>1 DEF TypePartialDelta, Keeps
<1>2. CASE t # <<>>
  <2>0. at.session.partial \in Text /\ at.session.typed_chars \in Nat
    BY DEF Surfaces, Sessions
  <2>1. /\ at.session.partial \o t \in Text /\ Len(t) \in Nat
    BY <2>0, TextsJoined
  <2>5. at.session.typed_chars + Len(t) \in Nat
    BY <2>0, <2>1
  <2> DEFINE next == [at.session EXCEPT !.typed_chars = @ + Len(t), !.partial = @ \o t]
  <2>2. /\ next \in Sessions /\ next.open = at.session.open
        /\ next.typed_chars = at.session.typed_chars + Len(t)
    BY <2>1, <2>5 DEF Surfaces, Sessions
  <2>3. TypePartialDelta(at, t, given)
          = Surface(IF given.ok THEN next ELSE at.session, at.cursor \o given.shown, at.lost)
    BY <1>2 DEF TypePartialDelta
  <2> HIDE DEF next
  <2> QED
    BY <2>2, <2>3, GivenKeeps
<1> QED
  BY <1>1, <1>2

LEMMA CommitSegmentKeeps ==
  ASSUME NEW at \in Surfaces, NEW t \in Text, NEW given, Delivers(t, given)
  PROVE  Keeps(at, CommitSegment(at, t, given))
<1>0. <<>> \in Text
  BY DEF Text
<1>1. CASE t = <<>>
  BY <1>0, <1>1 DEF CommitSegment, Keeps, Counted, AtMost, Surfaces, Sessions
<1>2. CASE t # <<>>
  <2>0. /\ at.session.finalized \in Text /\ at.session.partial \in Text
        /\ at.session.typed_chars \in Nat
    BY DEF Surfaces, Sessions
  <2>1. at.session.finalized \o at.session.partial \in Text /\ Len(t) \in Nat
    BY <2>0, TextsJoined
  <2>4. at.session.finalized \o at.session.partial \o t \in Text
    BY <2>1, TextsJoined
  <2>5. at.session.typed_chars + Len(t) \in Nat
    BY <2>0, <2>1
  <2> DEFINE next == [at.session EXCEPT !.typed_chars = @ + Len(t),
                                        !.finalized = @ \o at.session.partial \o t,
                                        !.partial = <<>>]
  <2>2. /\ next \in Sessions /\ next.open = at.session.open
        /\ next.typed_chars = at.session.typed_chars + Len(t)
    BY <1>0, <2>4, <2>5 DEF Surfaces, Sessions
  <2>3. CommitSegment(at, t, given)
          = Surface(IF given.ok THEN next ELSE at.session, at.cursor \o given.shown, at.lost)
    BY <1>2 DEF CommitSegment
  <2> HIDE DEF next
  <2> QED
    BY <2>2, <2>3, GivenKeeps
<1> QED
  BY <1>1, <1>2

(* Erasing no more letters than were counted.                              *)
LEMMA EraseKeeps ==
  ASSUME NEW at \in Surfaces, NEW s \in Sessions, NEW m \in Nat,
         m <= at.session.typed_chars,
         NEW after, after = Erase(at, s, m)
  PROVE  /\ after \in Surfaces /\ after.session = s
         /\ after.cursor = Shorter(at.cursor, m)
         /\ AtMost(at) => /\ after.lost = 0
                          /\ Len(after.cursor) = Len(at.cursor) - m
         /\ Counted(at) => Len(after.cursor) = Len(at.cursor) - m
<1> DEFINE c == at.cursor
           n == at.session.typed_chars
           l == at.lost + BeyondTheCursor(at, m)
<1>1. c \in Text /\ at.lost \in Nat /\ n \in Nat
  BY DEF Surfaces, Sessions
<1>2. Len(c) \in Nat
  BY <1>1, TextsJoined
<1>3. /\ l \in Nat
      /\ at.lost = 0 /\ m <= Len(c) => l = 0
  <2>1. /\ BeyondTheCursor(at, m) \in Nat
        /\ m <= Len(c) => BeyondTheCursor(at, m) = 0
    BY <1>1, <1>2 DEF BeyondTheCursor
  <2> QED
    BY <1>1, <2>1
<1>4. after = Surface(s, Shorter(c, m), l)
  BY DEF Erase
<1> HIDE DEF c, l
<1>5. Shorter(c, m) \in Text /\ Len(Shorter(c, m)) = IF m < Len(c) THEN Len(c) - m ELSE 0
  BY <1>1, ShorterProperties
<1>6. m <= Len(c) => Len(Shorter(c, m)) = Len(c) - m
  BY <1>2, <1>5
<1>7. /\ after \in Surfaces /\ after.session = s /\ after.cursor = Shorter(c, m)
      /\ after.lost = l
  BY <1>3, <1>4, <1>5, SurfaceParts, SurfaceType
<1>8. AtMost(at) => at.lost = 0 /\ m <= Len(c)
  <2>1. AtMost(at) => at.lost = 0 /\ n <= Len(c)
    BY DEF AtMost, c
  <2> QED
    BY <1>1, <1>2, <2>1
<1>9. Counted(at) => m <= Len(c)
  BY DEF Counted, c
<1> QED
  BY <1>3, <1>6, <1>7, <1>8, <1>9 DEF c

LEMMA BackspaceKeeps ==
  ASSUME NEW at \in Surfaces, NEW n \in Nat, NEW erased \in BOOLEAN
  PROVE  Keeps(at, Backspace(at, n, erased))
<1> DEFINE typed == at.session.typed_chars
           m == IF n < typed THEN n ELSE typed
           after == Backspace(at, n, erased)
<1>1. m \in Nat /\ m <= typed /\ typed \in Nat
  BY DEF Surfaces, Sessions
<1>2. CASE m = 0 \/ ~erased
  BY <1>2 DEF Backspace, Keeps
<1>3. CASE ~(m = 0 \/ ~erased)
  <2> DEFINE next == [at.session EXCEPT !.typed_chars = @ - m, !.partial = Shorter(@, m)]
  <2>1. after = Erase(at, next, m)
    BY <1>3 DEF Backspace
  <2> HIDE DEF m
  <2>2. Shorter(at.session.partial, m) \in Text
    BY <1>1, ShorterProperties DEF Surfaces, Sessions
  <2>3. typed - m \in Nat
    BY <1>1
  <2>4. next \in Sessions /\ next.open = at.session.open /\ next.typed_chars = typed - m
    BY <2>2, <2>3 DEF Surfaces, Sessions
  <2> HIDE DEF next, after, typed
  <2>0. m <= at.session.typed_chars
    BY <1>1 DEF typed
  <2>5. /\ after \in Surfaces /\ after.session = next
        /\ AtMost(at) => after.lost = 0 /\ Len(after.cursor) = Len(at.cursor) - m
        /\ Counted(at) => Len(after.cursor) = Len(at.cursor) - m
    BY <1>1, <2>0, <2>1, <2>4, EraseKeeps
  <2>6. Len(at.cursor) \in Nat
    BY DEF Surfaces, Text
  <2>7. AtMost(at) => AtMost(after)
    BY <1>1, <2>4, <2>5, <2>6 DEF AtMost, typed
  <2>8. Counted(at) => Counted(after)
    BY <1>1, <2>4, <2>5, <2>6 DEF Counted, typed
  <2>9. Keeps(at, after)
    BY <2>4, <2>5, <2>7, <2>8 DEF Keeps
  <2> QED
    BY <2>9 DEF after
<1> QED
  BY <1>2, <1>3

LEMMA TypedKeeps ==
  ASSUME NEW at \in Surfaces, NEW e \in Events, e.kind \in {"Final", "Replace"},
         NEW given, Delivers(e.text, given), NEW erased \in BOOLEAN
  PROVE  Keeps(at, Typed(at, e, given, erased))
<1>0. e.backspace \in Nat /\ e.text \in Text
  BY DEF Events
<1>1. CASE e.kind = "Final"
  BY <1>0, <1>1, CommitSegmentKeeps DEF Typed
<1>2. CASE e.kind = "Replace"
  <2> DEFINE shorter == Backspace(at, e.backspace, erased)
             longer == CommitSegment(shorter, e.text, given)
  <2>1. Keeps(at, shorter)
    BY <1>0, BackspaceKeeps
  <2>2. Keeps(shorter, longer)
    BY <1>0, <2>1, CommitSegmentKeeps DEF Keeps
  <2>3. Keeps(at, longer)
    BY <2>1, <2>2 DEF Keeps
  <2> QED
    BY <1>2, <2>3 DEF Typed, ReplaceAndCommit
<1> QED
  BY <1>1, <1>2

-----------------------------------------------------------------------------
(* Type correctness.  The recogniser and the backend's task, and the       *)
(* daemon, share nothing but the channel and the signals.                  *)

BackendOK ==
  /\ transcript \in Text
  /\ messages \in Nat
  /\ task \in {"connecting", "running", "closing", "done"}
  /\ typed_partial \in Text
  /\ last_text \in Text
  /\ outbox \in Seq(Events)
  /\ sent_eoa \in BOOLEAN

ChannelOK == channel \in Seq(Events) /\ Len(channel) <= Capacity

DaemonOK ==
  /\ backend \in Backends
  /\ faults \subseteq Faults
  /\ trailer \in Text
  /\ type_partials \in BOOLEAN
  /\ eof \in BOOLEAN /\ cancel \in BOOLEAN
  /\ phase \in {"streaming", "ending", "tapping", "cancelling",
                "closed", "batch", "cancelled"}
  /\ hybrid_pending \in BOOLEAN
  /\ partial_buffer \in Text
  /\ session \in Sessions
  /\ cursor \in Text
  /\ lost \in Nat
  /\ history \in Text

LEMMA TypeParts == TypeOK <=> BackendOK /\ ChannelOK /\ DaemonOK
BY DEF TypeOK, BackendOK, ChannelOK, DaemonOK, Sessions

LEMMA TypeInit == Init => TypeOK
<1> SUFFICES ASSUME Init PROVE BackendOK /\ ChannelOK /\ DaemonOK
  BY TypeParts
<1>1. <<>> \in Text /\ <<>> \in Seq(Events) /\ Len(<<>>) = 0
  BY DEF Text
<1>2. NewSession \in Sessions
  BY <1>1 DEF NewSession, NoSession, Sessions
<1>3. BackendOK
  BY <1>1 DEF Init, BackendOK
<1>4. ChannelOK
  BY <1>1, LiveTypingAssumption DEF Init, ChannelOK
<1>5. DaemonOK
  <2>1. faults \subseteq Faults /\ trailer \in Text
    BY LiveTypingAssumption DEF Init, Text
  <2> QED
    BY <1>1, <1>2, <2>1 DEF Init, DaemonOK
<1> QED
  BY <1>3, <1>4, <1>5

LEMMA CloseType ==
  ASSUME NEW events \in Seq(Events), Close(events)
  PROVE  outbox' \in Seq(Events) /\ task' = "closing"
BY EventTypes DEF Close

LEMMA BackendNext ==
  ASSUME TypeOK, Backend
  PROVE  TypeOK'
<1>0. BackendOK /\ ChannelOK /\ DaemonOK
  BY TypeParts
<1> SUFFICES BackendOK' /\ ChannelOK' /\ DaemonOK'
  BY DEF TypeOK, BackendOK, ChannelOK, DaemonOK, Sessions
<1> USE DEF BackendOK
<1>1. <<>> \in Seq(Events) /\ <<Error>> \in Seq(Events)
  BY EventTypes
<1>2. CASE Send
  <2>1. Head(outbox) \in Events /\ Tail(outbox) \in Seq(Events)
    BY <1>0, <1>2, HeadTailProperties DEF Send
  <2>2. ChannelOK'
    BY <1>0, <1>2, <2>1, LiveTypingAssumption DEF Send, ChannelOK
  <2> QED
    BY <1>0, <1>2, <2>1, <2>2
    DEF Send, DaemonOK, config, recogniser, decoder, signals, daemon, text
<1>3. CASE Connect \/ SendEndOfAudio \/ TaskEnds
  BY <1>0, <1>3
  DEF Connect, SendEndOfAudio, TaskEnds, ChannelOK, DaemonOK, config, recogniser,
      signals, daemon, text
<1>4. CASE ConnectFails \/ SeeCancel \/ DrainTimeout \/ ServerCloses \/ DecodeFails
  <2>1. \E events \in Seq(Events) : Close(events)
    BY <1>1, <1>4 DEF ConnectFails, SeeCancel, DrainTimeout, ServerCloses, DecodeFails
  <2>2. UNCHANGED <<config, recogniser, typed_partial, last_text, sent_eoa,
                    signals, channel, daemon, text>>
    BY <1>4 DEF ConnectFails, SeeCancel, DrainTimeout, ServerCloses, DecodeFails
  <2> QED
    BY <1>0, <2>1, <2>2, CloseType
    DEF ChannelOK, DaemonOK, config, recogniser, signals, daemon, text
<1>5. ASSUME NEW f \in Heard, NEW p \in Heard, NEW finished \in BOOLEAN,
             ServerMessage(f, p, finished)
      PROVE  BackendOK' /\ ChannelOK' /\ DaemonOK'
  <2> DEFINE typed == StillPartial(typed_partial, f)
             extends == type_partials /\ IsStrictPrefix(typed, p)
             finals == IF f = <<>> THEN <<>> ELSE FinalEvents(typed_partial, f)
             partials == IF extends THEN <<Partial(Rest(p, Len(typed)))>> ELSE <<>>
  <2>1. f \in Text /\ p \in Text /\ typed \in Text
    BY <1>0, HeardIsText, StillPartialType
  <2>2. finals \in Seq(Events)
    BY <1>0, <1>1, <2>1, FinalEventsType
  <2>3. partials \in Seq(Events)
    <3>1. CASE extends
      <4>1. Len(typed) \in 0 .. Len(p)
        BY <2>1, <3>1 DEF IsStrictPrefix, IsPrefix, Text
      <4>2. Partial(Rest(p, Len(typed))) \in Events
        BY <2>1, <4>1, RestProperties, EventTypes
      <4> QED
        BY <3>1, <4>2
    <3>2. CASE ~extends
      BY <1>1, <3>2
    <3> QED
      BY <3>1, <3>2
  <2>4. finals \o partials \in Seq(Events)
    BY <2>2, <2>3, ConcatProperties
  <2>5. /\ messages' = messages + 1
        /\ transcript' = transcript \o f
        /\ typed_partial' = IF extends THEN p ELSE typed
        /\ IF finished THEN Close(finals \o partials)
           ELSE outbox' = finals \o partials /\ UNCHANGED task
        /\ UNCHANGED <<config, last_text, sent_eoa, signals, channel, daemon, text>>
    BY <1>5 DEF ServerMessage
  <2>6. transcript \o f \in Text
    BY <1>0, <2>1 DEF Text
  <2>7. typed_partial' \in Text
    BY <2>1, <2>5
  <2> HIDE DEF typed, extends, finals, partials
  <2>8. outbox' \in Seq(Events) /\ task' \in {task, "closing"}
    BY <2>4, <2>5, CloseType
  <2> QED
    BY <1>0, <2>5, <2>6, <2>7, <2>8
    DEF ChannelOK, DaemonOK, config, signals, daemon, text
<1>6. ASSUME NEW t \in Heard, DecodeChunk(t)
      PROVE  BackendOK' /\ ChannelOK' /\ DaemonOK'
  <2>1. t \in Text /\ transcript \o t \in Text
    BY <1>0, HeardIsText DEF Text
  <2>2. outbox' \in Seq(Events)
    BY <1>1, <1>6, <2>1, EventTypes DEF DecodeChunk
  <2> QED
    BY <1>0, <1>6, <2>1, <2>2
    DEF DecodeChunk, ChannelOK, DaemonOK, config, signals, daemon, text
<1>7. ASSUME NEW t \in Heard, Flush(t)
      PROVE  BackendOK' /\ ChannelOK' /\ DaemonOK'
  <2>1. t \in Text /\ transcript \o t \in Text
    BY <1>0, HeardIsText DEF Text
  <2>2. PICK rest \in {t, last_text} :
          Close(IF rest = <<>> THEN <<>> ELSE <<Final(rest)>>)
    BY <1>7 DEF Flush
  <2>3. (IF rest = <<>> THEN <<>> ELSE <<Final(rest)>>) \in Seq(Events)
    BY <1>0, <1>1, <2>1, EventTypes
  <2>4. outbox' \in Seq(Events) /\ task' = "closing"
    BY <2>2, <2>3, CloseType
  <2> QED
    BY <1>0, <1>7, <2>1, <2>4
    DEF Flush, ChannelOK, DaemonOK, config, signals, daemon, text
<1> QED
  BY <1>2, <1>3, <1>4, <1>5, <1>6, <1>7 DEF Backend

-----------------------------------------------------------------------------
(* The daemon's steps.  The count of typed letters is kept with the types: *)
(* it is what makes a cancel's backspaces the right number.                *)

CountsTheCursor ==
  /\ "clipboard" \notin faults => lost = 0
  /\ session.open =>
       /\ "clipboard" \notin faults => session.typed_chars <= Len(cursor)
       /\ Truthful => session.typed_chars = Len(cursor)

Inv == TypeOK /\ CountsTheCursor

LEMMA NowParts ==
  /\ Now.session = session /\ Now.cursor = cursor /\ Now.lost = lost
  /\ Now'.session = session' /\ Now'.cursor = cursor' /\ Now'.lost = lost'
BY SurfaceParts DEF Now, Surface

LEMMA NowType == DaemonOK => Now \in Surfaces
BY SurfaceType DEF DaemonOK, Now

LEMMA ShowKeeps ==
  ASSUME session.open, CountsTheCursor, UNCHANGED <<faults, trailer>>,
         NEW after, Keeps(Now, after), Show(after)
  PROVE  session' \in Sessions /\ cursor' \in Text /\ lost' \in Nat /\ CountsTheCursor'
<1>1. /\ after \in Surfaces /\ after.session.open = session.open
      /\ session' = after.session /\ cursor' = after.cursor /\ lost' = after.lost
  BY NowParts DEF Keeps, Show
<1>2. "clipboard" \notin faults => lost' = 0 /\ session'.typed_chars <= Len(cursor')
  <2>1. "clipboard" \notin faults => AtMost(Now)
    BY NowParts DEF AtMost, CountsTheCursor
  <2> QED
    BY <1>1, <2>1 DEF Keeps, AtMost
<1>3. Truthful => session'.typed_chars = Len(cursor')
  <2>1. Truthful => Counted(Now)
    BY NowParts DEF Counted, CountsTheCursor
  <2> QED
    BY <1>1, <2>1 DEF Keeps, Counted
<1>4. faults' = faults /\ (Truthful' <=> Truthful)
  BY DEF Truthful
<1> QED
  BY <1>1, <1>2, <1>3, <1>4 DEF Surfaces, CountsTheCursor

LEMMA ErasedType == Erased \subseteq BOOLEAN
BY DEF Erased

LEMMA ReceiveType ==
  ASSUME ChannelOK, Pumping, Receive
  PROVE  Head(channel) \in Events /\ ChannelOK'
<1>1. Head(channel) \in Events /\ Tail(channel) \in Seq(Events)
  BY HeadTailProperties DEF ChannelOK, Pumping
<1>2. Len(Tail(channel)) <= Capacity
  BY HeadTailProperties, LiveTypingAssumption DEF ChannelOK, Pumping
<1> QED
  BY <1>1, <1>2 DEF ChannelOK, Receive

(* The end of a cancel: the session is gone, and no more is erased than    *)
(* was counted.                                                            *)
LEMMA CancelShown ==
  ASSUME DaemonOK, CountsTheCursor, CancelDone
  PROVE  /\ session' = NoSession /\ cursor' \in Text /\ lost' \in Nat
         /\ "clipboard" \notin faults => lost' = 0
         /\ ~session.open => cursor' = cursor
         /\ session.open /\ Truthful =>
              cursor' = <<>> \/ ("backspace" \in faults /\ cursor' = cursor)
<1>1. PICK erased \in Erased :
        Show(IF session.open /\ erased THEN Rewind ELSE Surface(NoSession, cursor, lost))
  BY DEF CancelDone
<1>2. /\ Now \in Surfaces /\ session.typed_chars \in Nat /\ NoSession \in Sessions
      /\ cursor \in Text /\ lost \in Nat
  BY NowType DEF DaemonOK, Sessions, NoSession, Text
<1>3. CASE session.open /\ erased
  <2> DEFINE n == session.typed_chars
             after == Erase(Now, NoSession, n)
  <2>1. Show(after)
    BY <1>1, <1>3 DEF Rewind
  <2>2. n \in Nat /\ n <= Now.session.typed_chars
    BY <1>2, NowParts
  <2> HIDE DEF n, after
  <2>3. /\ after \in Surfaces /\ after.session = NoSession
        /\ AtMost(Now) => after.lost = 0
        /\ Counted(Now) => Len(after.cursor) = Len(Now.cursor) - n
    BY <1>2, <2>2, EraseKeeps DEF after
  <2>4. /\ session' = NoSession /\ cursor' = after.cursor /\ lost' = after.lost
        /\ cursor' \in Text /\ lost' \in Nat
    BY <2>1, <2>3 DEF Show, Surfaces
  <2>5. "clipboard" \notin faults => lost' = 0
    BY <1>3, <2>3, <2>4, NowParts DEF AtMost, CountsTheCursor
  <2>6. ASSUME Truthful PROVE cursor' = <<>>
    <3>1. n = Len(cursor) /\ Counted(Now) /\ Len(cursor) \in Nat
      BY <1>2, <1>3, <2>6, NowParts, TextsJoined DEF Counted, CountsTheCursor, n
    <3>2. Len(cursor') = 0
      BY <2>3, <2>4, <3>1, NowParts
    <3> QED
      BY <2>4, <3>2, EmptySeq DEF Text
  <2> QED
    BY <1>3, <2>4, <2>5, <2>6
<1>4. CASE ~(session.open /\ erased)
  <2>1. session' = NoSession /\ cursor' = cursor /\ lost' = lost
    BY <1>1, <1>4, SurfaceParts DEF Show
  <2>2. session.open => "backspace" \in faults
    BY <1>1, <1>4 DEF Erased
  <2> QED
    BY <1>2, <2>1, <2>2 DEF CountsTheCursor
<1> QED
  BY <1>3, <1>4

LEMMA PumpNext ==
  ASSUME Inv, Pump
  PROVE  Inv'
<1>0. BackendOK /\ ChannelOK /\ DaemonOK /\ CountsTheCursor
  BY TypeParts DEF Inv
<1> SUFFICES BackendOK' /\ ChannelOK' /\ DaemonOK' /\ CountsTheCursor'
  BY DEF Inv, TypeOK, BackendOK, ChannelOK, DaemonOK, Sessions
<1>1. /\ Now \in Surfaces /\ session \in Sessions /\ cursor \in Text /\ lost \in Nat
      /\ trailer \in Text
  BY <1>0, NowType DEF DaemonOK
<1>2. NoSession \in Sessions /\ ~NoSession.open
  BY DEF NoSession, Sessions, Text
<1>3. CASE ReceivePartial
  <2>1. Head(channel) \in Events /\ ChannelOK' /\ Head(channel).text \in Text
    BY <1>0, <1>3, ReceiveType DEF ReceivePartial, Events
  <2>2. partial_buffer' \in Text
    BY <1>0, <1>3, <2>1 DEF ReceivePartial, DaemonOK, Text
  <2>3. session' \in Sessions /\ cursor' \in Text /\ lost' \in Nat /\ CountsTheCursor'
    <3>0. UNCHANGED <<faults, trailer>>
      BY <1>3 DEF ReceivePartial, config
    <3>1. CASE UNCHANGED <<session, cursor, lost>>
      BY <1>0, <1>1, <3>0, <3>1 DEF CountsTheCursor, Truthful
    <3>2. CASE ~UNCHANGED <<session, cursor, lost>>
      <4>1. /\ session.open
            /\ \E given \in Deliveries(Head(channel).text) :
                 Show(TypePartialDelta(Now, Head(channel).text, given))
        BY <1>3, <3>2 DEF ReceivePartial
      <4>2. PICK given \in Deliveries(Head(channel).text) :
              Show(TypePartialDelta(Now, Head(channel).text, given))
        BY <4>1
      <4>3. Keeps(Now, TypePartialDelta(Now, Head(channel).text, given))
        BY <1>1, <2>1, DeliveriesDeliver, TypePartialDeltaKeeps
      <4> QED
        BY <1>0, <3>0, <4>1, <4>2, <4>3, ShowKeeps
    <3> QED
      BY <3>1, <3>2
  <2> QED
    BY <1>0, <1>3, <2>1, <2>2, <2>3
    DEF ReceivePartial, BackendOK, DaemonOK, config, recogniser, decoder, signals
<1>4. CASE ReceiveFinal
  <2>1. /\ Head(channel) \in Events /\ ChannelOK'
        /\ Head(channel).kind \in {"Final", "Replace"}
    BY <1>0, <1>4, ReceiveType DEF ReceiveFinal
  <2>2. session' \in Sessions /\ cursor' \in Text /\ lost' \in Nat /\ CountsTheCursor'
    <3>0. UNCHANGED <<faults, trailer>>
      BY <1>4 DEF ReceiveFinal, config
    <3>1. CASE UNCHANGED <<session, cursor, lost>>
      BY <1>0, <1>1, <3>0, <3>1 DEF CountsTheCursor, Truthful
    <3>2. CASE ~UNCHANGED <<session, cursor, lost>>
      <4>1. /\ session.open
            /\ \E given \in Deliveries(Head(channel).text), erased \in Erased :
                 Show(Typed(Now, Head(channel), given, erased))
        BY <1>4, <3>2 DEF ReceiveFinal
      <4>2. PICK given \in Deliveries(Head(channel).text), erased \in Erased :
              Show(Typed(Now, Head(channel), given, erased))
        BY <4>1
      <4>3. Head(channel).text \in Text /\ erased \in BOOLEAN
        BY <2>1, ErasedType DEF Events
      <4>4. Keeps(Now, Typed(Now, Head(channel), given, erased))
        BY <1>1, <2>1, <4>3, DeliveriesDeliver, TypedKeeps
      <4> QED
        BY <1>0, <3>0, <4>1, <4>2, <4>4, ShowKeeps
    <3> QED
      BY <3>1, <3>2
  <2> QED
    BY <1>0, <1>4, <2>1, <2>2
    DEF ReceiveFinal, BackendOK, DaemonOK, config, recogniser, decoder, signals, daemon
<1>5. CASE ReceiveEnd
  <2>1. ChannelOK'
    BY <1>0, <1>5, ReceiveType DEF ReceiveEnd
  <2> QED
    BY <1>0, <1>5, <2>1
    DEF ReceiveEnd, BackendOK, DaemonOK, CountsTheCursor, Truthful, config, recogniser,
        decoder, text
<1>6. CASE EndStreaming \/ TapDone
  <2>1. session' = NoSession /\ UNCHANGED <<cursor, lost, channel, faults>>
    BY <1>6 DEF EndStreaming, TapDone, config
  <2>2. CountsTheCursor'
    BY <1>0, <1>2, <2>1 DEF CountsTheCursor
  <2>3. history' \in Text
    BY <1>0, <1>1, <1>6 DEF EndStreaming, TapDone, DaemonOK, Sessions
  <2> QED
    BY <1>0, <1>2, <1>6, <2>1, <2>2, <2>3
    DEF EndStreaming, TapDone, BackendOK, ChannelOK, DaemonOK, config, recogniser,
        decoder, signals
<1>7. CASE CancelDone
  <2>1. UNCHANGED <<channel, faults>>
    BY <1>7 DEF CancelDone, config
  <2>2. /\ session' = NoSession /\ cursor' \in Text /\ lost' \in Nat
        /\ "clipboard" \notin faults => lost' = 0
    BY <1>0, <1>1, <1>2, <1>7, CancelShown
  <2>3. CountsTheCursor'
    BY <1>2, <2>1, <2>2 DEF CountsTheCursor
  <2> QED
    BY <1>0, <1>2, <1>7, <2>1, <2>2, <2>3
    DEF CancelDone, BackendOK, ChannelOK, DaemonOK, config, recogniser, decoder
<1> QED
  BY <1>3, <1>4, <1>5, <1>6, <1>7 DEF Inv, Pump

LEMMA KeysNext ==
  ASSUME Inv, Promote \/ Tap \/ Stop \/ StopAndDisown \/ Cancel \/ UNCHANGED vars
  PROVE  Inv'
<1>0. BackendOK /\ ChannelOK /\ DaemonOK /\ CountsTheCursor
  BY TypeParts DEF Inv
<1> SUFFICES BackendOK' /\ ChannelOK' /\ DaemonOK' /\ CountsTheCursor'
  BY DEF Inv, TypeOK, BackendOK, ChannelOK, DaemonOK, Sessions
<1>1. /\ Now \in Surfaces /\ session \in Sessions /\ cursor \in Text /\ lost \in Nat
      /\ trailer \in Text
  BY <1>0, NowType DEF DaemonOK
<1>2. CASE Promote
  <2>1. session' \in Sessions /\ cursor' \in Text /\ lost' \in Nat /\ CountsTheCursor'
    <3>0. UNCHANGED <<faults, trailer>>
      BY <1>2 DEF Promote, config
    <3>1. CASE UNCHANGED <<session, cursor, lost>>
      BY <1>0, <1>1, <3>0, <3>1 DEF CountsTheCursor, Truthful
    <3>2. CASE ~UNCHANGED <<session, cursor, lost>>
      <4>1. /\ session.open
            /\ \E given \in Deliveries(partial_buffer) :
                 Show(TypePartialDelta(Now, partial_buffer, given))
        BY <1>2, <3>2 DEF Promote
      <4>2. PICK given \in Deliveries(partial_buffer) :
              Show(TypePartialDelta(Now, partial_buffer, given))
        BY <4>1
      <4>3. partial_buffer \in Text
        BY <1>0 DEF DaemonOK
      <4>4. Keeps(Now, TypePartialDelta(Now, partial_buffer, given))
        BY <1>1, <4>3, DeliveriesDeliver, TypePartialDeltaKeeps
      <4> QED
        BY <1>0, <3>0, <4>1, <4>2, <4>4, ShowKeeps
    <3> QED
      BY <3>1, <3>2
  <2> QED
    BY <1>0, <1>2, <2>1
    DEF Promote, BackendOK, ChannelOK, DaemonOK, config, recogniser, decoder, signals
<1>3. CASE Tap \/ Stop \/ Cancel \/ UNCHANGED vars
  <2>1. UNCHANGED <<config, recogniser, decoder, outbox, channel, text, partial_buffer>>
    BY <1>3 DEF Tap, Stop, Cancel, vars, daemon
  <2>2. CountsTheCursor'
    BY <1>0, <2>1 DEF CountsTheCursor, Truthful, config, text
  <2>3. BackendOK' /\ ChannelOK'
    BY <1>0, <2>1 DEF BackendOK, ChannelOK, recogniser, decoder
  <2>4. /\ eof' \in BOOLEAN /\ cancel' \in BOOLEAN /\ hybrid_pending' \in BOOLEAN
        /\ phase' \in {"streaming", "ending", "tapping", "cancelling",
                      "closed", "batch", "cancelled"}
    BY <1>0, <1>3 DEF Tap, Stop, Cancel, vars, DaemonOK, signals, daemon
  <2>5. DaemonOK'
    BY <1>0, <2>1, <2>4 DEF DaemonOK, config, text
  <2> QED
    BY <2>2, <2>3, <2>5
<1>4. CASE StopAndDisown
  <2>1. session' = NoSession /\ NoSession \in Sessions /\ ~NoSession.open
    BY <1>4 DEF StopAndDisown, NoSession, Sessions, Text
  <2> QED
    BY <1>0, <1>4, <2>1
    DEF StopAndDisown, BackendOK, ChannelOK, DaemonOK, CountsTheCursor, config,
        recogniser, decoder, daemon
<1> QED
  BY <1>2, <1>3, <1>4

LEMMA BackendLeavesTheText ==
  Backend => UNCHANGED <<session, cursor, lost, phase, faults, trailer>>
BY DEF Backend, Send, Connect, ConnectFails, SeeCancel, SendEndOfAudio, DrainTimeout,
       ServerCloses, TaskEnds, DecodeFails, ServerMessage, DecodeChunk, Flush,
       daemon, text, config

LEMMA InductiveInvariant == Spec => []Inv
<1>1. Init => Inv
  BY TypeInit DEF Inv, Init, CountsTheCursor, NewSession, NoSession
<1>2. Inv /\ [Next]_vars => Inv'
  <2>1. ASSUME Inv, Backend PROVE Inv'
    BY <2>1, BackendNext, BackendLeavesTheText DEF Inv, CountsTheCursor, Truthful
  <2> QED
    BY <2>1, PumpNext, KeysNext DEF Next
<1> QED
  BY <1>1, <1>2, PTL DEF Spec

-----------------------------------------------------------------------------
(* Whatever the recogniser says and however the keys interrupt it, every   *)
(* text, event and session has its type, and the channel never holds more  *)
(* than its capacity.                                                      *)
THEOREM TypeCorrect == Spec => []TypeOK
BY InductiveInvariant, PTL DEF Inv

(* No backspace reaches the user's own text unless an output went to the   *)
(* clipboard; and the session's count of typed letters is at most, or if   *)
(* the outputs report what they did exactly, that of the letters at the    *)
(* cursor, whatever output or backspace fails.                             *)
THEOREM CountIsRight == Spec => []CountsTheCursor
BY InductiveInvariant, PTL DEF Inv

(* A cancel takes back all of a stream's text if the outputs report what   *)
(* they did, and never a letter of the user's own text unless an output    *)
(* went to the clipboard; if its backspaces fail all of the text stays.    *)
THEOREM CancelTakesItBack == Spec => CancelTakesTheTextBack
<1>1. ASSUME Inv, [Next]_vars, phase' = "cancelled", phase # "cancelled", session.open
      PROVE  /\ "clipboard" \notin faults => lost' = 0
             /\ Truthful => cursor' = <<>> \/ ("backspace" \in faults /\ cursor' = cursor)
  <2>1. CancelDone
    <3>1. ~Backend /\ ~UNCHANGED vars
      BY <1>1, BackendLeavesTheText DEF vars, daemon
    <3>2. ~(Promote \/ Tap \/ Stop \/ StopAndDisown \/ Cancel)
      BY <1>1 DEF Promote, Tap, Stop, StopAndDisown, Cancel, daemon
    <3>3. ~(ReceivePartial \/ ReceiveFinal \/ ReceiveEnd \/ EndStreaming \/ TapDone)
      BY <1>1 DEF ReceivePartial, ReceiveFinal, ReceiveEnd, EndStreaming, TapDone, daemon
    <3> QED
      BY <1>1, <3>1, <3>2, <3>3 DEF Next, Pump
  <2>2. DaemonOK /\ CountsTheCursor
    BY <1>1, TypeParts DEF Inv
  <2> QED
    BY <1>1, <2>1, <2>2, CancelShown
<1>2. Inv /\ [Next]_vars =>
        [ phase' = "cancelled" /\ phase # "cancelled" /\ session.open =>
            /\ "clipboard" \notin faults => lost' = 0
            /\ Truthful => cursor' = <<>> \/ ("backspace" \in faults /\ cursor' = cursor)
        ]_vars
  BY <1>1
<1> QED
  BY <1>2, InductiveInvariant, PTL DEF Spec, CancelTakesTheTextBack

-----------------------------------------------------------------------------
(* Induction over the natural numbers, as a fact about sets of them.       *)
Less == {p \in Nat \X Nat : p[1] < p[2]}

LEMMA LessIsWellFounded == IsWellFoundedOn(Less, Nat)
BY NatLessThanWellFounded DEF OpToRel, Less

LEMMA Induction ==
  ASSUME NEW S, S \subseteq Nat, 0 \in S, \A n \in S : n + 1 \in S
  PROVE  S = Nat
<1> SUFFICES ASSUME Nat \ S # {} PROVE FALSE
  OBVIOUS
<1>1. PICK n \in Nat \ S : \A m \in Nat \ S : ~ (<<m, n>> \in Less)
  BY LessIsWellFounded, WFMin
<1>2. n # 0 /\ n - 1 \in Nat /\ n - 1 < n /\ n - 1 + 1 = n
  BY <1>1
<1>3. n - 1 \in S
  BY <1>1, <1>2 DEF Less
<1>4. n - 1 + 1 \in S
  BY <1>3
<1> QED
  BY <1>1, <1>2, <1>4

-----------------------------------------------------------------------------
(* Texts: what is kept and what is taken back of one.                      *)

LEMMA ConcatText ==
  /\ \A s, t \in Text : s \o t \in Text /\ Len(s \o t) = Len(s) + Len(t)
  /\ \A s, t, u \in Text : (s \o t) \o u = s \o (t \o u)
  /\ \A s \in Text : s \o <<>> = s /\ <<>> \o s = s
  /\ \A s \in Text : Len(s) \in Nat /\ (Len(s) = 0 <=> s = <<>>)
  /\ <<>> \in Text
BY ConcatProperties, ConcatAssociative, ConcatEmptySeq, LenProperties, EmptySeq DEF Text

LEMMA FrontOfText ==
  ASSUME NEW t \in Text, NEW n \in 0 .. Len(t)
  PROVE  /\ SubSeq(t, 1, n) \in Text
         /\ Len(SubSeq(t, 1, n)) = n
         /\ \A i \in 1 .. n : SubSeq(t, 1, n)[i] = t[i]
<1>1. \A i \in 1 .. n : t[i] \in Letters
  BY ElementOfSeq DEF Text
<1>2. n \in Int /\ 1 \in Int /\ n - 1 + 1 = n
  OBVIOUS
<1>3. /\ SubSeq(t, 1, n) \in Seq(Letters)
      /\ Len(SubSeq(t, 1, n)) = IF 1 <= n THEN n - 1 + 1 ELSE 0
      /\ \A i \in 1 .. n - 1 + 1 : SubSeq(t, 1, n)[i] = t[1 + i - 1]
  BY <1>1, <1>2, SubSeqProperties
<1> QED
  BY <1>3 DEF Text

LEMMA RestLetters ==
  ASSUME NEW t \in Text, NEW n \in 0 .. Len(t)
  PROVE  \A i \in 1 .. Len(t) - n : Rest(t, n)[i] = t[n + i]
<1> DEFINE m == n + 1
           k == Len(t)
<1>1. /\ m \in Int /\ k \in Int
      /\ \A i \in m .. k : t[i] \in Letters
  BY ElementOfSeq DEF Text
<1> HIDE DEF m, k
<1>2. \A i \in 1 .. k - m + 1 : SubSeq(t, m, k)[i] = t[m + i - 1]
  BY <1>1, SubSeqProperties
<1> USE DEF m, k
<1>3. \A i \in 1 .. Len(t) - n : m + i - 1 = n + i /\ i \in 1 .. k - m + 1
  BY <1>1
<1> QED
  BY <1>2, <1>3 DEF Rest

LEMMA FrontAndRest ==
  ASSUME NEW t \in Text, NEW n \in 0 .. Len(t)
  PROVE  SubSeq(t, 1, n) \o Rest(t, n) = t
<1>1. 1 \in 1 .. Len(t) + 1 /\ n \in 1 - 1 .. Len(t) /\ Len(t) \in n .. Len(t)
  BY ConcatText
<1>2. SubSeq(t, 1, n) \o SubSeq(t, n + 1, Len(t)) = SubSeq(t, 1, Len(t))
  BY <1>1, ConcatAdjacentSubSeq DEF Text
<1> QED
  BY <1>2, SubSeqFull DEF Rest, Text

LEMMA FrontOfConcat ==
  ASSUME NEW s \in Text, NEW t \in Text, NEW n \in 0 .. Len(s)
  PROVE  SubSeq(s \o t, 1, n) = SubSeq(s, 1, n)
<1>1. CASE n = 0
  BY <1>1, SubSeqEmpty
<1>2. CASE n # 0
  <2>1. 1 \in 1 .. Len(s) /\ n \in 1 .. Len(s)
    BY <1>2, ConcatText
  <2> QED
    BY <2>1, SubSeqOfConcat1 DEF Text
<1> QED
  BY <1>1, <1>2

LEMMA ShorterNone == \A t \in Text : Shorter(t, 0) = t
<1> TAKE t \in Text
<1>1. SubSeq(t, 1, Len(t)) = t
  BY SubSeqFull DEF Text
<1>2. Len(t) \in Nat /\ Len(t) - 0 = Len(t)
  BY ConcatText
<1>3. (IF 0 < Len(t) THEN Len(t) - 0 ELSE 0) = Len(t)
  BY <1>2
<1> QED
  BY <1>1, <1>3 DEF Shorter

LEMMA ShorterIsFront ==
  \A t \in Text : \A n \in 0 .. Len(t) : Shorter(t, n) = SubSeq(t, 1, Len(t) - n)
<1> TAKE t \in Text
<1> TAKE n \in 0 .. Len(t)
<1>1. (IF n < Len(t) THEN Len(t) - n ELSE 0) = Len(t) - n
  BY ConcatText
<1> QED
  BY <1>1 DEF Shorter

LEMMA ShorterConcat ==
  ASSUME NEW s \in Text, NEW t \in Text, NEW n \in 0 .. Len(t)
  PROVE  Shorter(s \o t, n) = s \o Shorter(t, n)
<1> DEFINE m == Len(t) - n
<1>1. /\ m \in 0 .. Len(t) /\ Len(s) \in Nat /\ Len(t) \in Nat
      /\ Len(s \o t) - n = Len(s) + m /\ n \in 0 .. Len(s \o t)
      /\ s \o t \in Text
  BY ConcatText
<1>2. Shorter(s \o t, n) = SubSeq(s \o t, 1, Len(s) + m) /\ Shorter(t, n) = SubSeq(t, 1, m)
  BY <1>1, ShorterIsFront
<1> HIDE DEF m
<1>3. /\ SubSeq(t, 1, m) \in Text /\ Len(SubSeq(t, 1, m)) = m
      /\ \A i \in 1 .. m : SubSeq(t, 1, m)[i] = t[i]
  BY <1>1, FrontOfText
<1>4. Len(s) + m \in 0 .. Len(s \o t)
  BY <1>1, ConcatText
<1>5. /\ SubSeq(s \o t, 1, Len(s) + m) \in Text
      /\ Len(SubSeq(s \o t, 1, Len(s) + m)) = Len(s) + m
      /\ \A i \in 1 .. Len(s) + m : SubSeq(s \o t, 1, Len(s) + m)[i] = (s \o t)[i]
  BY <1>1, <1>4, FrontOfText
<1>6. \A i \in 1 .. Len(s) + Len(t) : (s \o t)[i] = IF i <= Len(s) THEN s[i] ELSE t[i - Len(s)]
  BY ConcatProperties DEF Text
<1>7. /\ s \o SubSeq(t, 1, m) \in Text
      /\ Len(s \o SubSeq(t, 1, m)) = Len(s) + m
      /\ \A i \in 1 .. Len(s) + m :
           (s \o SubSeq(t, 1, m))[i] = IF i <= Len(s) THEN s[i] ELSE SubSeq(t, 1, m)[i - Len(s)]
  BY <1>3, ConcatProperties DEF Text
<1>8. \A i \in 1 .. Len(s) + m :
        SubSeq(s \o t, 1, Len(s) + m)[i] = (s \o SubSeq(t, 1, m))[i]
  <2> TAKE i \in 1 .. Len(s) + m
  <2>1. CASE i <= Len(s)
    BY <1>1, <1>5, <1>6, <1>7, <2>1
  <2>2. CASE ~(i <= Len(s))
    <3>1. i - Len(s) \in 1 .. m /\ i \in 1 .. Len(s) + Len(t)
      BY <1>1, <2>2
    <3> QED
      BY <1>3, <1>5, <1>6, <1>7, <2>2, <3>1
  <2> QED
    BY <2>1, <2>2
<1>9. SubSeq(s \o t, 1, Len(s) + m) = s \o SubSeq(t, 1, m)
  BY <1>5, <1>7, <1>8, SeqEqual DEF Text
<1> QED
  BY <1>2, <1>9

LEMMA PrefixAndRest ==
  ASSUME NEW s \in Text, NEW t \in Text, IsPrefix(s, t)
  PROVE  Len(s) \in 0 .. Len(t) /\ t = s \o Rest(t, Len(s))
<1>1. Len(s) \in 0 .. Len(t)
  BY ConcatText DEF IsPrefix
<1>2. SubSeq(t, 1, Len(s)) = s
  BY SubSeqFull DEF IsPrefix, Text
<1> QED
  BY <1>1, <1>2, FrontAndRest

-----------------------------------------------------------------------------
(* The letters two texts agree on: CommonPrefix counts the beginnings of   *)
(* the one that begin the other, and these are all its shorter ones.       *)

LEMMA InitialSegment ==
  ASSUME NEW A, NEW m \in Nat, A \subseteq 1 .. m,
         \A n \in A : n = 1 \/ n - 1 \in A
  PROVE  \E k \in Nat : A = 1 .. k
<1> DEFINE below == {n \in Nat : 1 .. n \subseteq A}
<1>1. 0 \in below
  OBVIOUS
<1>2. m + 1 \notin below
  <2>1. m + 1 \in 1 .. m + 1 /\ m + 1 \notin 1 .. m
    OBVIOUS
  <2>2. m + 1 \notin A
    BY <2>1
  <2> QED
    BY <2>1, <2>2
<1>3. PICK k \in below : k + 1 \notin below
  <2>1. below \subseteq Nat /\ below # Nat
    BY <1>2
  <2> QED
    BY <1>1, <2>1, Induction
<1>4. k \in Nat /\ 1 .. k \subseteq A /\ k + 1 \notin A
  BY <1>3
<1> HIDE DEF below
<1> DEFINE out == {i \in Nat : k + 1 + i \notin A}
<1>5. 0 \in out
  BY <1>4
<1>6. ASSUME NEW i \in out PROVE i + 1 \in out
  <2>1. k + 1 + i \notin A /\ i \in Nat /\ i + 1 \in Nat
    OBVIOUS
  <2>2. k + 1 + (i + 1) # 1 /\ k + 1 + (i + 1) - 1 = k + 1 + i
    BY <1>4, <2>1
  <2>3. k + 1 + (i + 1) \notin A
    <3> DEFINE n == k + 1 + (i + 1)
    <3> HIDE DEF n, out
    <3>1. n \in A => n = 1 \/ n - 1 \in A
      OBVIOUS
    <3>2. n # 1 /\ n - 1 \notin A
      <4>1. n # 1 /\ n - 1 = k + 1 + i
        BY <1>4, <2>1, <2>2 DEF n
      <4> QED
        BY <2>1, <4>1, Zenon
    <3>3. n \notin A
      BY <3>1, <3>2
    <3> QED
      BY <3>3 DEF n
  <2> QED
    BY <2>1, <2>3
<1>7. out = Nat
  <2>1. out \subseteq Nat
    OBVIOUS
  <2> QED
    BY <1>5, <1>6, <2>1, Induction
<1>8. ASSUME NEW n \in A PROVE n \in 1 .. k
  <2>1. CASE n <= k
    BY <1>4, <2>1
  <2>2. CASE ~(n <= k)
    <3>1. n \in Nat
      OBVIOUS
    <3>2. n - (k + 1) \in Nat /\ k + 1 + (n - (k + 1)) = n
      BY <1>4, <2>2, <3>1
    <3>3. n - (k + 1) \in out
      BY <1>7, <3>2
    <3> QED
      BY <3>2, <3>3
  <2> QED
    BY <2>1, <2>2
<1>9. A = 1 .. k
  BY <1>4, <1>8
<1> QED
  BY <1>4, <1>9

LEMMA CommonPrefixAgrees ==
  ASSUME NEW s \in Text, NEW t \in Text
  PROVE  SubSeq(s, 1, CommonPrefix(s, t)) = SubSeq(t, 1, CommonPrefix(s, t))
<1> DEFINE agree == {n \in DOMAIN s : IsPrefix(SubSeq(s, 1, n), t)}
<1>0. Len(s) \in Nat /\ Len(t) \in Nat /\ DOMAIN s = 1 .. Len(s)
  BY LenProperties DEF Text
<1>1. ASSUME NEW n \in 1 .. Len(s)
      PROVE  n \in agree <=> n <= Len(t) /\ SubSeq(s, 1, n) = SubSeq(t, 1, n)
  <2>1. Len(SubSeq(s, 1, n)) = n /\ SubSeq(s, 1, n) \in Text
    BY <1>0, FrontOfText
  <2>2. SubSeq(SubSeq(s, 1, n), 1, n) = SubSeq(s, 1, n)
    BY <2>1, SubSeqFull DEF Text
  <2> QED
    BY <1>0, <2>1, <2>2 DEF IsPrefix
<1>2. ASSUME NEW n \in agree, n # 1
      PROVE  n - 1 \in agree
  <2>1. n \in 1 .. Len(s) /\ n \in 1 .. Len(t) /\ SubSeq(s, 1, n) = SubSeq(t, 1, n)
    BY <1>0, <1>1, <1>2
  <2>2. /\ n - 1 \in 0 .. Len(s) /\ n - 1 \in 0 .. Len(t) /\ n - 1 \in 1 .. Len(s)
        /\ n \in 0 .. Len(s) /\ n \in 0 .. Len(t)
    BY <1>0, <1>2, <2>1
  <2>3. \A i \in 1 .. n : s[i] = t[i]
    BY <2>1, <2>2, FrontOfText
  <2>4. /\ SubSeq(s, 1, n - 1) \in Text /\ SubSeq(t, 1, n - 1) \in Text
        /\ Len(SubSeq(s, 1, n - 1)) = n - 1 /\ Len(SubSeq(t, 1, n - 1)) = n - 1
        /\ \A i \in 1 .. n - 1 : SubSeq(s, 1, n - 1)[i] = s[i]
        /\ \A i \in 1 .. n - 1 : SubSeq(t, 1, n - 1)[i] = t[i]
    BY <2>2, FrontOfText
  <2>5. \A i \in 1 .. n - 1 : i \in 1 .. n
    BY <2>1
  <2>6. SubSeq(s, 1, n - 1) = SubSeq(t, 1, n - 1)
    BY <2>3, <2>4, <2>5, SeqEqual DEF Text
  <2> QED
    BY <1>0, <1>1, <2>2, <2>6
<1> HIDE DEF agree
<1>3. agree \subseteq 1 .. Len(s)
  BY <1>0 DEF agree
<1>4. PICK k \in Nat : agree = 1 .. k
  BY <1>0, <1>2, <1>3, InitialSegment
<1>5. CommonPrefix(s, t) = k
  <2>1. Cardinality(1 .. k) = k
    BY FS_Interval
  <2> QED
    BY <1>4, <2>1 DEF CommonPrefix, agree
<1>6. CASE k = 0
  BY <1>5, <1>6, SubSeqEmpty
<1>7. CASE k # 0
  <2>1. k \in agree
    BY <1>4, <1>7
  <2> QED
    BY <1>1, <1>3, <1>5, <2>1
<1> QED
  BY <1>6, <1>7

-----------------------------------------------------------------------------
(* What the events on their way will make of the text.  A text is seen as  *)
(* two parts: what is kept, and the partial that may still be revised.     *)

Segments == [kept : Text, partial : Text]

Seg(kept, partial) == [kept |-> kept, partial |-> partial]

(* The events a backend sends: only a replacement takes letters back, and  *)
(* never more than the partial that is then at the cursor.                 *)
Fits(seg, e) ==
  /\ e \in Events
  /\ e.kind # "Replace" => e.backspace = 0
  /\ e.kind \in {"Final", "Replace"} => e.text # <<>>
  /\ e.kind \in {"Error", "Ended"} => e.text = <<>>
  /\ e.backspace <= Len(seg.partial)

Step(seg, e) ==
  IF e.kind \in {"Final", "Replace"}
  THEN Seg(seg.kept \o Shorter(seg.partial, e.backspace) \o e.text, <<>>)
  ELSE Seg(seg.kept, seg.partial \o e.text)

(* The events lead from one text to the other.                             *)
Path(path, from, events, to) ==
  /\ path \in [0 .. Len(events) -> Segments]
  /\ path[0] = from
  /\ path[Len(events)] = to
  /\ \A i \in 1 .. Len(events) :
       Fits(path[i - 1], events[i]) /\ path[i] = Step(path[i - 1], events[i])

Leads(from, events, to) ==
  \E path \in [0 .. Len(events) -> Segments] : Path(path, from, events, to)

LEMMA StepType ==
  ASSUME NEW seg \in Segments, NEW e, Fits(seg, e)
  PROVE  /\ Step(seg, e) \in Segments
         /\ Step(seg, e).kept \o Step(seg, e).partial
              = Shorter(seg.kept \o seg.partial, e.backspace) \o e.text
<1> DEFINE k == seg.kept
           p == seg.partial
           b == e.backspace
           t == e.text
<1>1. /\ k \in Text /\ p \in Text /\ t \in Text /\ b \in Nat /\ Len(p) \in Nat
      /\ b \in 0 .. Len(p)
  BY ConcatText DEF Segments, Fits, Events
<1>2. Shorter(p, b) \in Text /\ Shorter(k \o p, b) = k \o Shorter(p, b)
  BY <1>1, ShorterProperties, ShorterConcat
<1>3. CASE e.kind \in {"Final", "Replace"}
  <2>1. k \o Shorter(p, b) \o t \in Text /\ <<>> \in Text
    BY <1>1, <1>2, ConcatText
  <2>2. Step(seg, e) = Seg(k \o Shorter(p, b) \o t, <<>>)
    BY <1>3 DEF Step
  <2>3. k \o Shorter(p, b) \o t \o <<>> = k \o Shorter(p, b) \o t
    BY <2>1, ConcatText
  <2> DEFINE kept == k \o Shorter(p, b) \o t
  <2>4. /\ Shorter(k \o p, b) \o t = kept /\ kept \o <<>> = kept
        /\ kept \in Text /\ Step(seg, e) = Seg(kept, <<>>)
    BY <1>2, <2>1, <2>2, <2>3
  <2> HIDE DEF kept
  <2>5. /\ Seg(kept, <<>>) \in Segments
        /\ Seg(kept, <<>>).kept = kept /\ Seg(kept, <<>>).partial = <<>>
    BY <2>1, <2>4 DEF Seg, Segments
  <2> QED
    BY <2>4, <2>5
<1>4. CASE e.kind \notin {"Final", "Replace"}
  <2>1. b = 0
    BY <1>4 DEF Fits
  <2>2. p \o t \in Text /\ k \o (p \o t) = k \o p \o t /\ k \o p \in Text
    BY <1>1, ConcatText
  <2>3. Shorter(k \o p, b) = k \o p
    BY <2>1, <2>2, ShorterNone
  <2>4. Step(seg, e) = Seg(k, p \o t)
    BY <1>4 DEF Step
  <2> DEFINE partial == p \o t
  <2>5. /\ Shorter(k \o p, b) \o t = k \o partial
        /\ partial \in Text /\ Step(seg, e) = Seg(k, partial)
    BY <2>2, <2>3, <2>4
  <2> HIDE DEF partial
  <2>6. /\ Seg(k, partial) \in Segments
        /\ Seg(k, partial).kept = k /\ Seg(k, partial).partial = partial
    BY <1>1, <2>5 DEF Seg, Segments
  <2> QED
    BY <2>5, <2>6
<1> QED
  BY <1>3, <1>4

LEMMA LeadsNowhere ==
  ASSUME NEW seg \in Segments
  PROVE  Leads(seg, <<>>, seg)
<1> DEFINE path == [i \in 0 .. Len(<<>>) |-> seg]
<1>1. Len(<<>>) = 0
  OBVIOUS
<1>2. path \in [0 .. Len(<<>>) -> Segments]
  OBVIOUS
<1>3. Path(path, seg, <<>>, seg)
  BY <1>1, <1>2 DEF Path
<1> QED
  BY <1>2, <1>3 DEF Leads

LEMMA LeadsOneStep ==
  ASSUME NEW seg \in Segments, NEW e, Fits(seg, e)
  PROVE  Leads(seg, <<e>>, Step(seg, e))
<1> DEFINE path == [i \in 0 .. Len(<<e>>) |-> IF i = 0 THEN seg ELSE Step(seg, e)]
<1>1. Len(<<e>>) = 1 /\ <<e>>[1] = e
  OBVIOUS
<1>2. Step(seg, e) \in Segments
  BY StepType
<1>3. path \in [0 .. Len(<<e>>) -> Segments]
  BY <1>2
<1>4. path[0] = seg /\ path[1] = Step(seg, e)
  BY <1>1
<1> HIDE DEF path
<1>5. \A i \in 1 .. Len(<<e>>) : i = 1 /\ i - 1 = 0
  BY <1>1
<1>6. Path(path, seg, <<e>>, Step(seg, e))
  BY <1>1, <1>3, <1>4, <1>5 DEF Path
<1> QED
  BY <1>3, <1>6 DEF Leads

LEMMA LeadsType ==
  ASSUME NEW a, NEW events \in Seq(Events), NEW b, Leads(a, events, b)
  PROVE  a \in Segments /\ b \in Segments
<1>1. Len(events) \in Nat
  BY LenProperties
<1>2. 0 \in 0 .. Len(events) /\ Len(events) \in 0 .. Len(events)
  BY <1>1
<1> QED
  BY <1>2 DEF Leads, Path

LEMMA LeadsOn ==
  ASSUME NEW a, NEW b, NEW c, NEW first \in Seq(Events), NEW second \in Seq(Events),
         Leads(a, first, b), Leads(b, second, c)
  PROVE  Leads(a, first \o second, c)
<1> DEFINE m == Len(first)
           n == Len(second)
<1>1. /\ m \in Nat /\ n \in Nat /\ Len(first \o second) = m + n
      /\ \A i \in 1 .. m + n :
           (first \o second)[i] = IF i <= m THEN first[i] ELSE second[i - m]
  BY ConcatProperties, LenProperties
<1>2. PICK p \in [0 .. m -> Segments] : Path(p, a, first, b)
  BY DEF Leads
<1>3. PICK q \in [0 .. n -> Segments] : Path(q, b, second, c)
  BY DEF Leads
<1> DEFINE path == [i \in 0 .. m + n |-> IF i <= m THEN p[i] ELSE q[i - m]]
<1> HIDE DEF m, n
<1>4. path \in [0 .. m + n -> Segments]
  <2>1. \A i \in 0 .. m + n : IF i <= m THEN i \in 0 .. m ELSE i - m \in 0 .. n
    BY <1>1
  <2> QED
    BY <1>2, <1>3, <2>1
<1>0. \A i \in 0 .. m + n : path[i] = IF i <= m THEN p[i] ELSE q[i - m]
  OBVIOUS
<1> HIDE DEF path
<1>5. p[0] = a /\ p[m] = b /\ q[0] = b /\ q[n] = c
  BY <1>2, <1>3 DEF Path, m, n
<1>6. path[0] = a /\ path[m + n] = c
  <2>1. 0 \in 0 .. m + n /\ 0 <= m /\ m + n \in 0 .. m + n /\ m + n - m = n
    BY <1>1
  <2>2. m + n <= m => n = 0 /\ m + n = m
    BY <1>1
  <2>3. path[0] = p[0]
    BY <1>0, <2>1
  <2>4. path[m + n] = IF m + n <= m THEN p[m + n] ELSE q[m + n - m]
    BY <1>0, <1>1, <2>1
  <2>5. path[m + n] = q[n]
    <3>1. CASE m + n <= m
      BY <1>5, <2>2, <2>4, <3>1
    <3>2. CASE ~(m + n <= m)
      BY <2>1, <2>4, <3>2
    <3> QED
      BY <3>1, <3>2
  <2> QED
    BY <1>5, <2>3, <2>5
<1>7. \A i \in 0 .. n : path[m + i] = q[i]
  <2> TAKE i \in 0 .. n
  <2>1. m + i \in 0 .. m + n /\ m + i - m = i /\ (m + i <= m => i = 0 /\ m + i = m)
    BY <1>1
  <2>2. path[m + i] = IF m + i <= m THEN p[m + i] ELSE q[m + i - m]
    BY <1>0, <1>1, <2>1
  <2>3. CASE m + i <= m
    BY <1>5, <2>1, <2>2, <2>3
  <2>4. CASE ~(m + i <= m)
    BY <2>1, <2>2, <2>4
  <2> QED
    BY <2>3, <2>4
<1>8. \A i \in 0 .. m : path[i] = p[i]
  <2> TAKE i \in 0 .. m
  <2>1. i \in 0 .. m + n /\ i <= m
    BY <1>1
  <2> QED
    BY <1>0, <2>1
<1>9. ASSUME NEW i \in 1 .. m + n
      PROVE  /\ Fits(path[i - 1], (first \o second)[i])
             /\ path[i] = Step(path[i - 1], (first \o second)[i])
  <2>1. CASE i <= m
    <3>1. i \in 1 .. m /\ i \in 0 .. m /\ i - 1 \in 0 .. m
      BY <1>1, <2>1
    <3>2. Fits(p[i - 1], first[i]) /\ p[i] = Step(p[i - 1], first[i])
      BY <1>2, <3>1 DEF Path, m
    <3>3. (first \o second)[i] = first[i]
      BY <1>1, <2>1
    <3> QED
      BY <1>8, <3>1, <3>2, <3>3
  <2>2. CASE ~(i <= m)
    <3> DEFINE j == i - m
    <3>1. j \in 1 .. n /\ j \in 0 .. n /\ j - 1 \in 0 .. n /\ i = m + j /\ i - 1 = m + (j - 1)
      BY <1>1, <2>2
    <3>2. (first \o second)[i] = second[j]
      BY <1>1, <2>2
    <3> HIDE DEF j
    <3>3. Fits(q[j - 1], second[j]) /\ q[j] = Step(q[j - 1], second[j])
      BY <1>3, <3>1 DEF Path, n
    <3> QED
      BY <1>7, <3>1, <3>2, <3>3
  <2> QED
    BY <2>1, <2>2
<1>10. Path(path, a, first \o second, c)
  BY <1>1, <1>4, <1>6, <1>9 DEF Path, m, n
<1> QED
  BY <1>1, <1>4, <1>10 DEF Leads, m, n

LEMMA LeadsPast ==
  ASSUME NEW a, NEW b, NEW events \in Seq(Events), events # <<>>, Leads(a, events, b)
  PROVE  Fits(a, Head(events)) /\ Leads(Step(a, Head(events)), Tail(events), b)
<1> DEFINE n == Len(events)
<1>1. /\ n \in Nat \ {0} /\ Head(events) = events[1]
      /\ Tail(events) \in Seq(Events) /\ Len(Tail(events)) = n - 1
      /\ \A i \in 1 .. n - 1 : Tail(events)[i] = events[i + 1]
  BY EmptySeq, HeadTailProperties
<1>2. PICK p \in [0 .. n -> Segments] : Path(p, a, events, b)
  BY DEF Leads
<1> HIDE DEF n
<1>3. /\ p[0] = a /\ p[n] = b
      /\ \A i \in 1 .. n : Fits(p[i - 1], events[i]) /\ p[i] = Step(p[i - 1], events[i])
  BY <1>2 DEF Path, n
<1>4. Fits(a, Head(events)) /\ p[1] = Step(a, Head(events))
  <2>1. 1 \in 1 .. n /\ 1 - 1 = 0
    BY <1>1
  <2> QED
    BY <1>1, <1>3, <2>1
<1> DEFINE path == [i \in 0 .. n - 1 |-> p[i + 1]]
<1>5. path \in [0 .. n - 1 -> Segments]
  <2>1. \A i \in 0 .. n - 1 : i + 1 \in 0 .. n
    BY <1>1
  <2> QED
    BY <1>2, <2>1
<1>6. path[0] = p[1] /\ path[n - 1] = b
  <2>1. 0 \in 0 .. n - 1 /\ n - 1 \in 0 .. n - 1 /\ n - 1 + 1 = n
    BY <1>1
  <2> QED
    BY <1>3, <2>1
<1>7. ASSUME NEW i \in 1 .. n - 1
      PROVE  /\ Fits(path[i - 1], Tail(events)[i])
             /\ path[i] = Step(path[i - 1], Tail(events)[i])
  <2>1. /\ i + 1 \in 1 .. n /\ i - 1 + 1 = i /\ i + 1 - 1 = i
        /\ i \in 0 .. n - 1 /\ i - 1 \in 0 .. n - 1
    BY <1>1
  <2>2. path[i] = p[i + 1] /\ path[i - 1] = p[i] /\ Tail(events)[i] = events[i + 1]
    BY <1>1, <2>1
  <2>3. Fits(p[i], events[i + 1]) /\ p[i + 1] = Step(p[i], events[i + 1])
    BY <1>3, <2>1
  <2> QED
    BY <2>2, <2>3
<1> HIDE DEF path
<1>8. Path(path, Step(a, Head(events)), Tail(events), b)
  BY <1>1, <1>4, <1>5, <1>6, <1>7 DEF Path
<1> QED
  BY <1>1, <1>4, <1>5, <1>8 DEF Leads

-----------------------------------------------------------------------------
(* What the backends send.  Soniox believes that after its events the text *)
(* is what the server committed itself to and the partial sent on top.     *)

Believes(seg, said, typed) ==
  /\ seg.kept \o seg.partial = said \o typed
  /\ Len(typed) <= Len(seg.partial)

LEMMA SegmentIs == \A seg \in Segments : Seg(seg.kept, seg.partial) = seg
BY DEF Segments, Seg

LEMMA EndsLeadNowhere ==
  ASSUME NEW seg \in Segments
  PROVE  Leads(seg, <<Error>>, seg) /\ Leads(seg, <<Ended>>, seg)
<1>1. seg.kept \in Text /\ seg.partial \in Text /\ Len(seg.partial) \in Nat
  BY ConcatText DEF Segments
<1>2. ASSUME NEW e \in {Error, Ended} PROVE Leads(seg, <<e>>, seg)
  <2>1. /\ e.kind \in {"Error", "Ended"} /\ e.backspace = 0 /\ e.text = <<>>
        /\ e \in Events
    BY EventTypes DEF Error, Ended, Event
  <2>2. Fits(seg, e)
    BY <1>1, <2>1 DEF Fits
  <2>3. Step(seg, e) = seg
    BY <1>1, <2>1, ConcatText, SegmentIs DEF Step
  <2> QED
    BY <2>2, <2>3, LeadsOneStep
<1> QED
  BY <1>2

LEMMA PartialLeads ==
  ASSUME NEW seg \in Segments, NEW t \in Text
  PROVE  Leads(seg, <<Partial(t)>>, Seg(seg.kept, seg.partial \o t))
<1>1. seg.partial \in Text /\ Len(seg.partial) \in Nat
  BY ConcatText DEF Segments
<1>2. /\ Partial(t).kind = "Partial" /\ Partial(t).backspace = 0
      /\ Partial(t).text = t /\ Partial(t) \in Events
  BY EventTypes DEF Partial, Event
<1>3. Fits(seg, Partial(t))
  BY <1>1, <1>2 DEF Fits
<1>4. Step(seg, Partial(t)) = Seg(seg.kept, seg.partial \o t)
  BY <1>2 DEF Step
<1> QED
  BY <1>3, <1>4, LeadsOneStep

LEMMA FinalLeads ==
  ASSUME NEW seg \in Segments, NEW t \in Text, t # <<>>
  PROVE  Leads(seg, <<Final(t)>>, Seg(seg.kept \o seg.partial \o t, <<>>))
<1>1. seg.partial \in Text /\ Len(seg.partial) \in Nat
  BY ConcatText DEF Segments
<1>2. /\ Final(t).kind = "Final" /\ Final(t).backspace = 0
      /\ Final(t).text = t /\ Final(t) \in Events
  BY EventTypes DEF Final, Event
<1>3. Fits(seg, Final(t))
  BY <1>1, <1>2 DEF Fits
<1>4. Step(seg, Final(t)) = Seg(seg.kept \o seg.partial \o t, <<>>)
  BY <1>1, <1>2, ShorterNone DEF Step
<1> QED
  BY <1>3, <1>4, LeadsOneStep

LEMMA ReplaceLeads ==
  ASSUME NEW seg \in Segments, NEW n \in 0 .. Len(seg.partial), NEW t \in Text, t # <<>>
  PROVE  Leads(seg, <<Replace(n, t)>>, Seg(seg.kept \o Shorter(seg.partial, n) \o t, <<>>))
<1>0. Len(seg.partial) \in Nat /\ n \in Nat /\ n <= Len(seg.partial)
  BY ConcatText DEF Segments
<1>1. /\ Replace(n, t).kind = "Replace" /\ Replace(n, t).backspace = n
      /\ Replace(n, t).text = t /\ Replace(n, t) \in Events
  BY <1>0, EventTypes DEF Replace, Event
<1>2. Fits(seg, Replace(n, t))
  BY <1>0, <1>1 DEF Fits
<1>3. Step(seg, Replace(n, t)) = Seg(seg.kept \o Shorter(seg.partial, n) \o t, <<>>)
  BY <1>1 DEF Step
<1> QED
  BY <1>2, <1>3, LeadsOneStep

(* The finals of a message: whatever the partial was, what is then at the  *)
(* cursor is the server's text, and what remains of the partial.           *)
LEMMA FinalsLead ==
  ASSUME NEW seg \in Segments, NEW said \in Text, NEW typed \in Text, NEW f \in Text,
         Believes(seg, said, typed)
  PROVE  \E to \in Segments :
           /\ Leads(seg, IF f = <<>> THEN <<>> ELSE FinalEvents(typed, f), to)
           /\ Believes(to, said \o f, StillPartial(typed, f))
<1> DEFINE k == seg.kept
           p == seg.partial
<1>0. /\ k \in Text /\ p \in Text /\ Len(p) \in Nat /\ Len(typed) \in Nat /\ Len(f) \in Nat
      /\ k \o p = said \o typed /\ Len(typed) <= Len(p)
      /\ <<>> \in Text /\ Len(<<>>) = 0
  BY ConcatText DEF Segments, Believes
<1>1. CASE IsPrefix(f, typed) /\ f # typed
  <2>1. IsStrictPrefix(f, typed)
    BY <1>1 DEF IsStrictPrefix
  <2>2. StillPartial(typed, f) = Rest(typed, Len(f))
    BY <2>1 DEF StillPartial
  <2>3. /\ Len(f) \in 0 .. Len(typed) /\ typed = f \o Rest(typed, Len(f))
        /\ Rest(typed, Len(f)) \in Text /\ Len(Rest(typed, Len(f))) = Len(typed) - Len(f)
    BY <1>1, PrefixAndRest, RestProperties
  <2>4. ~IsPrefix(typed, f)
    <3>1. ASSUME IsPrefix(typed, f) PROVE FALSE
      <4>1. Len(typed) = Len(f) /\ SubSeq(f, 1, Len(f)) = SubSeq(typed, 1, Len(f))
        BY <1>0, <1>1, <3>1 DEF IsPrefix
      <4>2. SubSeq(f, 1, Len(f)) = f /\ SubSeq(typed, 1, Len(typed)) = typed
        BY SubSeqFull DEF Text
      <4> QED
        BY <1>1, <4>1, <4>2
    <3> QED
      BY <3>1
  <2>5. (IF f = <<>> THEN <<>> ELSE FinalEvents(typed, f)) = <<>>
    BY <1>1, <2>4 DEF FinalEvents
  <2>6. k \o p = (said \o f) \o Rest(typed, Len(f))
    <3>1. said \o (f \o Rest(typed, Len(f))) = (said \o f) \o Rest(typed, Len(f))
      BY <2>3, ConcatText
    <3> QED
      BY <1>0, <2>3, <3>1
  <2>7. Believes(seg, said \o f, StillPartial(typed, f))
    BY <1>0, <2>2, <2>3, <2>6 DEF Believes
  <2> QED
    BY <2>5, <2>7, LeadsNowhere
<1>2. CASE IsPrefix(typed, f)
  <2>1. Len(typed) \in 0 .. Len(f) /\ f = typed \o Rest(f, Len(typed))
    BY <1>2, PrefixAndRest
  <2>2. StillPartial(typed, f) = <<>>
    <3>1. ASSUME IsPrefix(f, typed) PROVE f = typed
      <4>1. Len(typed) = Len(f) /\ SubSeq(f, 1, Len(f)) = SubSeq(typed, 1, Len(f))
        BY <1>0, <1>2, <3>1 DEF IsPrefix
      <4> QED
        BY <4>1, SubSeqFull DEF Text
    <3> QED
      BY <3>1 DEF StillPartial, IsStrictPrefix
  <2>3. CASE f = typed
    <3>1. (IF f = <<>> THEN <<>> ELSE FinalEvents(typed, f)) = <<>>
      BY <1>2, <2>3 DEF FinalEvents
    <3>2. (said \o f) \o <<>> = said \o typed
      BY <2>3, ConcatText
    <3>3. Believes(seg, said \o f, <<>>)
      BY <1>0, <3>2 DEF Believes
    <3> QED
      BY <2>2, <3>1, <3>3, LeadsNowhere
  <2>4. CASE f # typed
    <3> DEFINE rest == Rest(f, Len(typed))
               to == Seg(k \o p \o rest, <<>>)
    <3>1. rest \in Text /\ rest # <<>>
      <4>1. rest \in Text
        BY <2>1, RestProperties
      <4>2. rest = <<>> => f = typed
        BY <2>1, ConcatText
      <4> QED
        BY <2>4, <4>1, <4>2
    <3>2. f # <<>>
      BY <1>0, <2>1, <2>4, ConcatText
    <3>3. (IF f = <<>> THEN <<>> ELSE FinalEvents(typed, f)) = <<Final(rest)>>
      BY <1>2, <2>4, <3>2 DEF FinalEvents
    <3>4. k \o p \o rest = said \o f /\ said \o f \in Text /\ (said \o f) \o <<>> = said \o f
      <4>1. (said \o typed) \o rest = said \o (typed \o rest)
        BY <3>1, ConcatText
      <4>2. said \o f \in Text
        BY ConcatText
      <4> QED
        BY <1>0, <2>1, <4>1, <4>2, ConcatText
    <3>5. Leads(seg, <<Final(rest)>>, to)
      BY <3>1, FinalLeads
    <3> HIDE DEF rest
    <3>6. to \in Segments /\ to.kept = said \o f /\ to.partial = <<>>
      BY <1>0, <3>4 DEF Seg, Segments
    <3> HIDE DEF to
    <3>7. Believes(to, said \o f, <<>>)
      BY <1>0, <3>4, <3>6 DEF Believes
    <3> QED
      BY <2>2, <3>3, <3>5, <3>6, <3>7
  <2> QED
    BY <2>3, <2>4
<1>3. CASE ~IsPrefix(f, typed) /\ ~IsPrefix(typed, f)
  <2> DEFINE n == CommonPrefix(typed, f)
             rest == Rest(f, n)
             back == Len(typed) - n
             to == Seg(k \o Shorter(p, back) \o rest, <<>>)
  <2>1. /\ n \in 0 .. Len(typed) /\ n \in 0 .. Len(f)
        /\ SubSeq(typed, 1, n) = SubSeq(f, 1, n)
    <3>1. n \in 0 .. Len(typed) /\ n <= Len(f)
      BY CommonPrefixType
    <3>2. SubSeq(typed, 1, n) = SubSeq(f, 1, n)
      BY CommonPrefixAgrees
    <3> HIDE DEF n
    <3> QED
      BY <1>0, <3>1, <3>2
  <2>2. StillPartial(typed, f) = <<>>
    BY <1>3 DEF StillPartial, IsStrictPrefix
  <2>3. f # <<>>
    <3>1. SubSeq(typed, 1, 0) = <<>> /\ SubSeq(<<>>, 1, 0) = <<>>
      BY SubSeqEmpty
    <3>2. IsPrefix(<<>>, typed)
      BY <1>0, <3>1 DEF IsPrefix
    <3> QED
      BY <1>3, <3>2
  <2>4. (IF f = <<>> THEN <<>> ELSE FinalEvents(typed, f)) = <<Replace(back, rest)>>
    BY <1>3, <2>3 DEF FinalEvents
  <2> HIDE DEF n
  <2>5. back \in 0 .. Len(p) /\ back \in 0 .. Len(typed) /\ back \in Nat
        /\ Len(typed) - back = n
    BY <1>0, <2>1
  <2>6. rest \in Text /\ SubSeq(f, 1, n) \o rest = f
    BY <2>1, RestProperties, FrontAndRest
  <2>7. rest # <<>>
    <3>1. ASSUME rest = <<>> PROVE FALSE
      <4>1. Len(rest) = Len(f) - n
        BY <2>1, RestProperties
      <4>2. n = Len(f)
        BY <1>0, <2>1, <3>1, <4>1
      <4>3. IsPrefix(f, typed)
        BY <1>0, <2>1, <4>2 DEF IsPrefix
      <4> QED
        BY <1>3, <4>3
    <3> QED
      BY <3>1
  <2>8. Leads(seg, <<Replace(back, rest)>>, to)
    BY <2>5, <2>6, <2>7, ReplaceLeads
  <2>9. k \o Shorter(p, back) \o rest = said \o f
    <3>1. Shorter(k \o p, back) = k \o Shorter(p, back)
      BY <1>0, <2>5, ShorterConcat
    <3>2. Shorter(said \o typed, back) = said \o Shorter(typed, back)
      BY <2>5, ShorterConcat
    <3>3. Shorter(typed, back) = SubSeq(f, 1, n)
      BY <2>1, <2>5, ShorterIsFront
    <3>4. SubSeq(f, 1, n) \in Text
      BY <2>1, FrontOfText
    <3>5. (said \o SubSeq(f, 1, n)) \o rest = said \o (SubSeq(f, 1, n) \o rest)
      BY <2>6, <3>4, ConcatText
    <3> QED
      BY <1>0, <2>6, <3>1, <3>2, <3>3, <3>5
  <2>10. said \o f \in Text /\ (said \o f) \o <<>> = said \o f
    BY ConcatText
  <2> HIDE DEF rest, back
  <2>11. to \in Segments /\ to.kept = said \o f /\ to.partial = <<>>
    BY <1>0, <2>9, <2>10 DEF Seg, Segments
  <2> HIDE DEF to
  <2>12. Believes(to, said \o f, <<>>)
    BY <1>0, <2>10, <2>11 DEF Believes
  <2> QED
    BY <2>2, <2>4, <2>8, <2>11, <2>12
<1> QED
  BY <1>1, <1>2, <1>3

(* The partial of a message, if it extends the one that was sent.          *)
LEMMA PartialsLead ==
  ASSUME NEW seg \in Segments, NEW said \in Text, NEW typed \in Text, NEW p \in Text,
         Believes(seg, said, typed), IsStrictPrefix(typed, p)
  PROVE  \E to \in Segments :
           /\ Leads(seg, <<Partial(Rest(p, Len(typed)))>>, to)
           /\ Believes(to, said, p)
<1> DEFINE rest == Rest(p, Len(typed))
           after == Seg(seg.kept, seg.partial \o rest)
<1>1. Len(typed) \in 0 .. Len(p) /\ p = typed \o rest
  BY PrefixAndRest DEF IsStrictPrefix
<1>2. rest \in Text
  BY <1>1, RestProperties
<1>3. Leads(seg, <<Partial(Rest(p, Len(typed)))>>, after)
  BY <1>2, PartialLeads
<1> HIDE DEF rest
<1>4. /\ seg.kept \in Text /\ seg.partial \in Text
      /\ Len(seg.partial) \in Nat /\ Len(typed) \in Nat /\ Len(rest) \in Nat
      /\ seg.kept \o seg.partial = said \o typed /\ Len(typed) <= Len(seg.partial)
  BY <1>2, ConcatText DEF Segments, Believes
<1>5. /\ seg.partial \o rest \in Text
      /\ Len(seg.partial \o rest) = Len(seg.partial) + Len(rest)
      /\ Len(p) = Len(typed) + Len(rest)
  BY <1>1, <1>2, <1>4, ConcatText
<1>6. seg.kept \o (seg.partial \o rest) = said \o p
  <2>1. seg.kept \o (seg.partial \o rest) = (seg.kept \o seg.partial) \o rest
    BY <1>2, <1>4, ConcatText
  <2>2. said \o (typed \o rest) = (said \o typed) \o rest
    BY <1>2, ConcatText
  <2> QED
    BY <1>1, <1>4, <2>1, <2>2
<1>7. /\ after \in Segments /\ after.kept = seg.kept /\ after.partial = seg.partial \o rest
  BY <1>4, <1>5 DEF Seg, Segments
<1> HIDE DEF after
<1>8. Len(p) <= Len(seg.partial \o rest)
  BY <1>4, <1>5
<1>9. Believes(after, said, p)
  BY <1>6, <1>7, <1>8 DEF Believes
<1> QED
  BY <1>3, <1>7, <1>9

-----------------------------------------------------------------------------
(* What an event that fits does to a session with nothing failing: what it *)
(* remembers is stepped, and stays the text at the cursor.                 *)

Remembers(at) == Seg(at.session.finalized, at.session.partial)

Whole(at) == at.session.finalized \o at.session.partial = at.cursor

LEMMA SurfaceTexts ==
  ASSUME NEW at \in Surfaces
  PROVE  /\ at.session.finalized \in Text /\ at.session.partial \in Text
         /\ at.cursor \in Text /\ at.session.typed_chars \in Nat
         /\ Remembers(at) \in Segments
         /\ Remembers(at).kept = at.session.finalized
         /\ Remembers(at).partial = at.session.partial
BY DEF Surfaces, Sessions, Segments, Seg, Remembers

(* An output or a backspace that succeeds.                                 *)
Done == TRUE

LEMMA PartialIsTyped ==
  ASSUME NEW at \in Surfaces, Whole(at), NEW t \in Text,
         NEW given, given.ok = Done, given.shown = t,
         NEW after, after = TypePartialDelta(at, t, given)
  PROVE  /\ Remembers(after) = Seg(at.session.finalized, at.session.partial \o t)
         /\ Whole(after)
<1> DEFINE k == at.session.finalized
           p == at.session.partial
           c == at.cursor
<1>1. k \in Text /\ p \in Text /\ c \in Text /\ k \o p = c
  BY SurfaceTexts DEF Whole
<1>2. p \o <<>> = p /\ k \o (p \o t) = c \o t
  <2> HIDE DEF k, p, c
  <2>1. (k \o p) \o t = k \o (p \o t) /\ p \o <<>> = p
    BY <1>1, ConcatText
  <2> QED
    BY <1>1, <2>1
<1>3. CASE t = <<>>
  BY <1>2, <1>3 DEF TypePartialDelta, Remembers, Whole
<1>4. CASE t # <<>>
  <2> DEFINE next == [at.session EXCEPT !.typed_chars = @ + Len(t), !.partial = @ \o t]
  <2> DEFINE longer == c \o t
             l == at.lost
  <2>1. after = Surface(next, longer, l)
    BY <1>4 DEF TypePartialDelta, Done
  <2>2. next.finalized = k /\ next.partial = p \o t
    BY DEF Surfaces, Sessions
  <2> HIDE DEF next, longer, l
  <2>0. after.session = next /\ after.cursor = longer /\ after.lost = l
    BY <2>1, SurfaceIs
  <2>3. Remembers(after) = Seg(k, p \o t) /\ Whole(after)
    BY <1>2, <2>0, <2>2 DEF Remembers, Whole, longer
  <2> QED
    BY <2>3
<1> QED
  BY <1>3, <1>4

LEMMA SegmentIsCommitted ==
  ASSUME NEW at \in Surfaces, Whole(at), NEW t \in Text, t # <<>>,
         NEW given, given.ok = Done, given.shown = t,
         NEW after, after = CommitSegment(at, t, given)
  PROVE  /\ Remembers(after) = Seg(at.session.finalized \o at.session.partial \o t, <<>>)
         /\ Whole(after)
<1> DEFINE k == at.session.finalized
           p == at.session.partial
           c == at.cursor
<1>1. k \in Text /\ p \in Text /\ c \in Text /\ k \o p = c
  BY SurfaceTexts DEF Whole
<1>2. c \o t \in Text /\ (k \o p \o t) \o <<>> = c \o t
  BY <1>1, ConcatText
<1> DEFINE next == [at.session EXCEPT !.typed_chars = @ + Len(t),
                                      !.finalized = @ \o at.session.partial \o t,
                                      !.partial = <<>>]
<1> DEFINE longer == c \o t
           l == at.lost
<1>3. after = Surface(next, longer, l)
  BY DEF CommitSegment, Done
<1>4. next.finalized = k \o p \o t /\ next.partial = <<>>
  BY DEF Surfaces, Sessions
<1> HIDE DEF next, longer, l
<1>5. after.session = next /\ after.cursor = longer /\ after.lost = l
  BY <1>3, SurfaceIs
<1>6. Remembers(after) = Seg(k \o p \o t, <<>>) /\ Whole(after)
  BY <1>2, <1>4, <1>5 DEF Remembers, Whole, longer
<1> QED
  BY <1>6

LEMMA PartialIsErased ==
  ASSUME NEW at \in Surfaces, Counted(at), Whole(at), NEW n \in 0 .. Len(at.session.partial),
         NEW after, after = Backspace(at, n, Done)
  PROVE  /\ Remembers(after) = Seg(at.session.finalized, Shorter(at.session.partial, n))
         /\ after.cursor = Shorter(at.cursor, n)
         /\ Whole(after)
<1> DEFINE k == at.session.finalized
           p == at.session.partial
           c == at.cursor
<1>1. /\ k \in Text /\ p \in Text /\ c \in Text /\ k \o p = c
      /\ Len(k) \in Nat /\ Len(p) \in Nat /\ Len(c) = Len(k) + Len(p) /\ n \in Nat
      /\ n <= Len(p)
  <2>1. k \in Text /\ p \in Text /\ c \in Text /\ k \o p = c /\ n \in 0 .. Len(p)
    BY SurfaceTexts DEF Whole
  <2> HIDE DEF k, p, c
  <2>2. Len(k) \in Nat /\ Len(p) \in Nat /\ Len(k \o p) = Len(k) + Len(p)
    BY <2>1, ConcatText
  <2> QED
    BY <2>1, <2>2
<1>2. Shorter(c, n) = k \o Shorter(p, n)
  <2> HIDE DEF k, p, c
  <2>1. n \in 0 .. Len(p)
    BY <1>1
  <2>2. Shorter(k \o p, n) = k \o Shorter(p, n)
    BY <1>1, <2>1, ShorterConcat
  <2> QED
    BY <1>1, <2>2
<1>3. (IF n < at.session.typed_chars THEN n ELSE at.session.typed_chars) = n
  <2>1. at.session.typed_chars = Len(c)
    BY DEF Counted
  <2> HIDE DEF k, p, c
  <2>2. n <= Len(c) /\ Len(c) \in Nat
    BY <1>1
  <2> QED
    BY <1>1, <2>1, <2>2
<1>4. CASE n = 0
  <2>1. after = at
    BY <1>3, <1>4 DEF Backspace
  <2>2. Shorter(p, n) = p /\ Shorter(c, n) = c
    BY <1>1, <1>4, ShorterNone
  <2> QED
    BY <2>1, <2>2 DEF Remembers
<1>5. CASE n # 0
  <2> DEFINE next == [at.session EXCEPT !.typed_chars = @ - n, !.partial = Shorter(@, n)]
  <2> DEFINE shorter == Shorter(c, n)
             l == at.lost + BeyondTheCursor(at, n)
  <2>1. after = Surface(next, shorter, l)
    BY <1>3, <1>5 DEF Backspace, Erase, Done
  <2>0. next.finalized = k /\ next.partial = Shorter(p, n)
    BY DEF Surfaces, Sessions
  <2> HIDE DEF next, shorter, l
  <2>2. after.session = next /\ after.cursor = shorter /\ after.lost = l
    BY <2>1, SurfaceIs
  <2>3. Remembers(after) = Seg(k, Shorter(p, n)) /\ Whole(after)
    BY <1>2, <2>0, <2>2 DEF Remembers, Whole, shorter
  <2> QED
    BY <2>2, <2>3 DEF shorter
<1> QED
  BY <1>4, <1>5

LEMMA FinalIsTyped ==
  ASSUME NEW at \in Surfaces, Counted(at), Whole(at), NEW e, Fits(Remembers(at), e),
         e.kind \in {"Final", "Replace"},
         NEW given, given.ok = Done, given.shown = e.text,
         NEW after, after = Typed(at, e, given, Done)
  PROVE  Remembers(after) = Step(Remembers(at), e) /\ Whole(after)
<1> DEFINE k == at.session.finalized
           p == at.session.partial
           n == e.backspace
           t == e.text
<1>1. /\ Remembers(at).kept = k /\ Remembers(at).partial = p
      /\ k \in Text /\ p \in Text
  BY SurfaceTexts
<1>2. t \in Text /\ t # <<>> /\ n \in Nat /\ n <= Len(p) /\ Len(p) \in Nat
  BY <1>1, ConcatText DEF Fits, Events
<1>3. n \in 0 .. Len(p)
  BY <1>2
<1>4. Step(Remembers(at), e) = Seg(k \o Shorter(p, n) \o t, <<>>)
  BY <1>1 DEF Step
<1>5. CASE e.kind = "Final"
  <2>1. n = 0
    BY <1>5 DEF Fits
  <2>2. Shorter(p, n) = p
    BY <1>1, <2>1, ShorterNone
  <2>3. after = CommitSegment(at, t, given)
    BY <1>5 DEF Typed
  <2> QED
    BY <1>2, <1>4, <2>2, <2>3, SegmentIsCommitted
<1>6. CASE e.kind = "Replace"
  <2> DEFINE shorter == Backspace(at, n, Done)
  <2>1. after = CommitSegment(shorter, t, given)
    BY <1>6 DEF Typed, ReplaceAndCommit
  <2>2. shorter \in Surfaces
    BY <1>2, BackspaceKeeps DEF Keeps, Done
  <2>3. Remembers(shorter) = Seg(k, Shorter(p, n)) /\ Whole(shorter)
    BY <1>3, PartialIsErased
  <2> HIDE DEF shorter
  <2>4. shorter.session.finalized = k /\ shorter.session.partial = Shorter(p, n)
    BY <2>3 DEF Remembers, Seg
  <2> QED
    BY <1>2, <1>4, <2>1, <2>2, <2>3, <2>4, SegmentIsCommitted
<1> QED
  BY <1>5, <1>6

-----------------------------------------------------------------------------
(* The invariant of a stream whose typing cannot fail.                     *)

Coming == channel \o outbox

Seen == Seg(session.finalized,
            session.partial \o (IF hybrid_pending THEN partial_buffer ELSE <<>>))

Expected(seg) == backend = "soniox" => Believes(seg, transcript, typed_partial)

(* The events on their way, in the channel or not sent yet, fit what is    *)
(* seen, and lead to what Soniox's task believes.                          *)
OnTheWay == \E to \in Segments : Leads(Seen, Coming, to) /\ Expected(to)

Streaming == phase = "streaming" /\ session.open

WholeSession == session.open => session.finalized \o session.partial = cursor

(* While a hybrid press may still be a tap nothing is typed, and no event  *)
(* that commits a text is on its way.                                      *)
Revisions == {e \in Events : e.kind \notin {"Final", "Replace"}}

Undecided ==
  Streaming /\ hybrid_pending =>
    session = NewSession /\ cursor = <<>> /\ ~eof /\ Coming \in Seq(Revisions)

NotCancelled == phase = "streaming" => ~cancel

Believed ==
  /\ Sound => WholeSession
  /\ Sound /\ Streaming => OnTheWay
  /\ Undecided
  /\ NotCancelled

StreamInv == Inv /\ Believed

-----------------------------------------------------------------------------
LEMMA ComingType == TypeOK => Coming \in Seq(Events)
BY ConcatProperties DEF TypeOK, Coming

LEMMA SeenType ==
  ASSUME session \in Sessions, partial_buffer \in Text
  PROVE  Seen \in Segments
<1>1. session.finalized \in Text /\ session.partial \in Text
  BY DEF Sessions
<1>2. session.partial \o (IF hybrid_pending THEN partial_buffer ELSE <<>>) \in Text
  BY <1>1, ConcatText
<1> QED
  BY <1>1, <1>2 DEF Seen, Seg, Segments

LEMMA BelievedInit == Init => Believed
<1> SUFFICES ASSUME Init PROVE Believed
  OBVIOUS
<1>0. <<>> \in Text /\ <<>> \o <<>> = <<>> /\ Len(<<>>) = 0
  BY ConcatText
<1>1. session = NewSession /\ session.finalized = <<>> /\ session.partial = <<>>
  BY DEF Init, NewSession, NoSession
<1>2. Coming = <<>> /\ Seen = Seg(<<>>, <<>>)
  BY <1>0, <1>1 DEF Init, Coming, Seen
<1>3. Seg(<<>>, <<>>) \in Segments
  BY <1>0 DEF Seg, Segments
<1>4. Expected(Seg(<<>>, <<>>))
  BY <1>0 DEF Init, Expected, Believes, Seg
<1>5. OnTheWay
  BY <1>2, <1>3, <1>4, LeadsNowhere DEF OnTheWay
<1>6. WholeSession
  BY <1>0, <1>1 DEF Init, WholeSession
<1>7. Coming \in Seq(Revisions)
  BY <1>2
<1>8. cursor = <<>> /\ ~eof /\ ~cancel
  BY DEF Init
<1> QED
  BY <1>1, <1>5, <1>6, <1>7, <1>8 DEF Believed, Undecided, NotCancelled

-----------------------------------------------------------------------------
(* The backend's task leaves the text alone.  The events it adds lead from *)
(* what it believed to what it now believes, and commit nothing while the  *)
(* press is undecided.                                                     *)

ExpectedNext(seg) == backend' = "soniox" => Believes(seg, transcript', typed_partial')

LeadsToBelief(events) ==
  \A from \in Segments : Expected(from) =>
    \E to \in Segments : Leads(from, events, to) /\ ExpectedNext(to)

Adds(events) ==
  /\ events \in Seq(Events)
  /\ Coming' = Coming \o events
  /\ LeadsToBelief(events)
  /\ hybrid_pending /\ ~eof /\ ~cancel => events \in Seq(Revisions)

LEMMA AddsKeepsBelief ==
  ASSUME Inv, Believed, NEW events, Adds(events),
         UNCHANGED <<config, signals, daemon, text>>
  PROVE  Believed'
<1>0. TypeOK
  BY DEF Inv
<1>1. /\ Seen' = Seen /\ backend' = backend /\ faults' = faults
      /\ session' = session /\ cursor' = cursor /\ phase' = phase
      /\ hybrid_pending' = hybrid_pending /\ eof' = eof /\ cancel' = cancel
      /\ trailer' = trailer
  BY DEF Seen, config, signals, daemon, text
<1>2. (Sound <=> Sound') /\ (Streaming <=> Streaming')
  BY <1>1 DEF Sound, Streaming
<1>3. ASSUME OnTheWay PROVE OnTheWay'
  <2>1. PICK from \in Segments : Leads(Seen, Coming, from) /\ Expected(from)
    BY <1>3 DEF OnTheWay
  <2>2. PICK to \in Segments : Leads(from, events, to) /\ ExpectedNext(to)
    BY <2>1 DEF Adds, LeadsToBelief
  <2>3. Leads(Seen, Coming \o events, to)
    BY <1>0, <2>1, <2>2, ComingType, LeadsOn DEF Adds
  <2> QED
    BY <1>1, <2>2, <2>3 DEF OnTheWay, Expected, ExpectedNext, Adds
<1>4. (WholeSession => WholeSession') /\ (NotCancelled => NotCancelled')
  BY <1>1 DEF WholeSession, NotCancelled
<1>5. ASSUME Undecided, NotCancelled PROVE Undecided'
  <2>1. SUFFICES ASSUME Streaming, hybrid_pending PROVE Coming' \in Seq(Revisions)
    BY <1>1, <1>2, <1>5 DEF Undecided
  <2>2. ~eof /\ ~cancel /\ Coming \in Seq(Revisions)
    BY <1>5, <2>1 DEF Undecided, NotCancelled, Streaming
  <2>3. events \in Seq(Revisions)
    BY <2>1, <2>2 DEF Adds
  <2> QED
    BY <2>2, <2>3, ConcatProperties DEF Adds
<1> QED
  BY <1>2, <1>3, <1>4, <1>5 DEF Believed

(* What a task that has sent everything puts in the outbox, it adds.       *)
LEMMA OutboxAdds ==
  ASSUME TypeOK, outbox = <<>>, UNCHANGED channel
  PROVE  Coming' = Coming \o outbox'
<1>1. Coming = channel
  BY ConcatEmptySeq DEF TypeOK, Coming
<1> QED
  BY <1>1 DEF Coming

LEMMA NothingAdded ==
  /\ <<>> \in Seq(Events) /\ <<>> \in Seq(Revisions)
  /\ UNCHANGED <<backend, transcript, typed_partial>> => LeadsToBelief(<<>>)
BY LeadsNowhere DEF LeadsToBelief, Expected, ExpectedNext

LEMMA HeadAndTail ==
  ASSUME NEW S, NEW seq \in Seq(S), seq # <<>>
  PROVE  <<Head(seq)>> \o Tail(seq) = seq
<1>1. Len(seq) \in Nat \ {0} /\ 1 \in 1 .. Len(seq) /\ Len(seq) \in 1 .. Len(seq)
  BY EmptySeq, LenProperties
<1>2. SubSeq(seq, 1, Len(seq)) = <<seq[1]>> \o SubSeq(seq, 1 + 1, Len(seq))
  BY <1>1, SubSeqRecursiveFirst
<1>3. SubSeq(seq, 1, Len(seq)) = seq /\ 1 + 1 = 2
  BY SubSeqFull
<1>4. Tail(seq) = SubSeq(seq, 2, Len(seq)) /\ Head(seq) = seq[1]
  BY TailIsSubSeq
<1> QED
  BY <1>2, <1>3, <1>4

LEMMA SendAdds ==
  ASSUME TypeOK, Send
  PROVE  Adds(<<>>)
<1>1. channel \in Seq(Events) /\ outbox \in Seq(Events) /\ outbox # <<>>
  BY DEF TypeOK, Send
<1>2. /\ Head(outbox) \in Events /\ Tail(outbox) \in Seq(Events)
      /\ <<Head(outbox)>> \o Tail(outbox) = outbox
  BY <1>1, HeadTailProperties, HeadAndTail
<1> DEFINE e == Head(outbox)
           rest == Tail(outbox)
<1>3. channel' = Append(channel, e) /\ outbox' = rest
  BY DEF Send
<1> HIDE DEF e, rest
<1>4. Append(channel, e) = channel \o <<e>> /\ <<e>> \in Seq(Events)
  BY <1>1, <1>2, AppendIsConcat DEF e
<1>5. channel \o <<e>> \o rest = channel \o (<<e>> \o rest)
  BY <1>1, <1>2, <1>4, ConcatAssociative DEF rest
<1>6. Coming' = Coming
  BY <1>2, <1>3, <1>4, <1>5 DEF Coming, e, rest
<1>7. Coming \o <<>> = Coming
  BY ComingType, ConcatEmptySeq
<1>8. UNCHANGED <<backend, transcript, typed_partial>>
  BY DEF Send, config, recogniser, decoder
<1> QED
  BY <1>6, <1>7, <1>8, NothingAdded DEF Adds

LEMMA QuietAdds ==
  ASSUME TypeOK, Connect \/ SendEndOfAudio \/ TaskEnds
  PROVE  Adds(<<>>)
<1>1. UNCHANGED <<backend, transcript, typed_partial, channel, outbox>>
  BY DEF Connect, SendEndOfAudio, TaskEnds, config, recogniser, decoder
<1>2. Coming' = Coming /\ Coming \o <<>> = Coming
  BY <1>1, ComingType, ConcatEmptySeq DEF Coming
<1> QED
  BY <1>1, <1>2, NothingAdded DEF Adds

(* The events of an end: none of them commits a text.                      *)
LEMMA EndsAdd ==
  /\ Error \in Events /\ Ended \in Events
  /\ Error \in Revisions /\ Ended \in Revisions
  /\ \A t \in Text : Partial(t) \in Events /\ Partial(t) \in Revisions
BY EventTypes DEF Error, Ended, Partial, Event, Revisions

(* A task that leaves its loop adds its last events, and Ended.            *)
LEMMA ClosingAdds ==
  ASSUME TypeOK, outbox = <<>>, UNCHANGED channel,
         NEW events \in Seq(Events), Close(events), LeadsToBelief(events),
         hybrid_pending /\ ~eof /\ ~cancel => events \in Seq(Revisions)
  PROVE  Adds(outbox')
<1>1. outbox' = events \o <<Ended>>
  BY EndsAdd, AppendIsConcat DEF Close
<1>2. <<Ended>> \in Seq(Events) /\ <<Ended>> \in Seq(Revisions)
  BY EndsAdd
<1>3. outbox' \in Seq(Events)
  BY <1>1, <1>2, ConcatProperties
<1>4. hybrid_pending /\ ~eof /\ ~cancel => outbox' \in Seq(Revisions)
  BY <1>1, <1>2, ConcatProperties
<1>5. LeadsToBelief(outbox')
  <2> SUFFICES ASSUME NEW from \in Segments, Expected(from)
               PROVE  \E to \in Segments : Leads(from, outbox', to) /\ ExpectedNext(to)
    BY DEF LeadsToBelief
  <2>1. PICK to \in Segments : Leads(from, events, to) /\ ExpectedNext(to)
    BY DEF LeadsToBelief
  <2>2. Leads(to, <<Ended>>, to)
    BY EndsLeadNowhere
  <2>3. Leads(from, events \o <<Ended>>, to)
    BY <1>2, <2>1, <2>2, LeadsOn
  <2> QED
    BY <1>1, <2>1, <2>3
<1> QED
  BY <1>3, <1>4, <1>5, OutboxAdds DEF Adds

LEMMA EndingAdds ==
  ASSUME TypeOK,
         ConnectFails \/ SeeCancel \/ DrainTimeout \/ ServerCloses \/ DecodeFails
  PROVE  Adds(outbox')
<1>1. /\ outbox = <<>>
      /\ UNCHANGED <<backend, transcript, typed_partial, channel>>
  BY DEF ConnectFails, SeeCancel, DrainTimeout, ServerCloses, DecodeFails, Running,
         config, recogniser
<1>2. PICK events \in {<<>>, <<Error>>} : Close(events)
  BY DEF ConnectFails, SeeCancel, DrainTimeout, ServerCloses, DecodeFails
<1>3. <<Error>> \in Seq(Events) /\ <<Error>> \in Seq(Revisions)
  BY EndsAdd
<1>4. ASSUME NEW from \in Segments PROVE Leads(from, events, from)
  BY LeadsNowhere, EndsLeadNowhere
<1>5. LeadsToBelief(events)
  BY <1>1, <1>4 DEF LeadsToBelief, Expected, ExpectedNext
<1>6. events \in Seq(Events) /\ events \in Seq(Revisions)
  BY <1>3, NothingAdded
<1> QED
  BY <1>1, <1>2, <1>5, <1>6, ClosingAdds

(* A message of the server: PrivateFinals is FALSE, so that no final comes *)
(* before the press is decided.                                            *)
LEMMA MessageAdds ==
  ASSUME TypeOK, PrivateFinals = FALSE,
         NEW f \in Heard, NEW p \in Heard, NEW finished \in BOOLEAN,
         ServerMessage(f, p, finished)
  PROVE  Adds(outbox')
<1> DEFINE typed == StillPartial(typed_partial, f)
           extends == type_partials /\ IsStrictPrefix(typed, p)
           finals == IF f = <<>> THEN <<>> ELSE FinalEvents(typed_partial, f)
           partials == IF extends THEN <<Partial(Rest(p, Len(typed)))>> ELSE <<>>
<1>1. /\ outbox = <<>> /\ backend = "soniox" /\ backend' = backend /\ channel' = channel
      /\ hybrid_pending => f = <<>>
      /\ transcript' = transcript \o f
      /\ typed_partial' = IF extends THEN p ELSE typed
      /\ IF finished THEN Close(finals \o partials) ELSE outbox' = finals \o partials
  BY DEF ServerMessage, Running, config
<1>2. /\ f \in Text /\ p \in Text /\ typed \in Text
      /\ transcript \in Text /\ typed_partial \in Text /\ transcript \o f \in Text
  BY HeardIsText, StillPartialType, ConcatText DEF TypeOK
<1>3. finals \in Seq(Events) /\ (f = <<>> => finals = <<>>)
  BY <1>2, FinalEventsType
<1>4. partials \in Seq(Events) /\ partials \in Seq(Revisions)
  <2>1. CASE extends
    <3>1. Len(typed) \in 0 .. Len(p)
      BY <1>2, <2>1, PrefixAndRest DEF IsStrictPrefix
    <3>2. Rest(p, Len(typed)) \in Text
      BY <1>2, <3>1, RestProperties
    <3>3. Partial(Rest(p, Len(typed))) \in Events /\ Partial(Rest(p, Len(typed))) \in Revisions
      BY <3>2, EndsAdd
    <3> QED
      BY <2>1, <3>3
  <2>2. CASE ~extends
    BY <2>2
  <2> QED
    BY <2>1, <2>2
<1>5. LeadsToBelief(finals \o partials)
  <2> SUFFICES ASSUME NEW from \in Segments, Expected(from)
               PROVE  \E to \in Segments :
                        Leads(from, finals \o partials, to) /\ ExpectedNext(to)
    BY DEF LeadsToBelief
  <2>1. Believes(from, transcript, typed_partial)
    BY <1>1 DEF Expected
  <2>2. PICK mid \in Segments :
          Leads(from, finals, mid) /\ Believes(mid, transcript \o f, typed)
    BY <1>2, <2>1, FinalsLead
  <2>3. CASE extends
    <3>1. PICK to \in Segments :
            /\ Leads(mid, <<Partial(Rest(p, Len(typed)))>>, to)
            /\ Believes(to, transcript \o f, p)
      BY <1>2, <2>2, <2>3, PartialsLead
    <3>2. partials = <<Partial(Rest(p, Len(typed)))>> /\ typed_partial' = p
      BY <1>1, <2>3
    <3>3. Leads(mid, partials, to) /\ Believes(to, transcript \o f, typed_partial')
      BY <3>1, <3>2
    <3> HIDE DEF finals, partials
    <3> QED
      BY <1>1, <1>3, <1>4, <2>2, <3>3, LeadsOn DEF ExpectedNext
  <2>4. CASE ~extends
    <3>1. finals \o partials = finals /\ typed_partial' = typed
      BY <1>1, <1>3, <2>4, ConcatEmptySeq
    <3>2. Leads(from, finals \o partials, mid)
      BY <2>2, <3>1
    <3>3. Believes(mid, transcript', typed_partial')
      BY <1>1, <2>2, <3>1
    <3> QED
      BY <3>2, <3>3 DEF ExpectedNext
  <2> QED
    BY <2>3, <2>4
<1> HIDE DEF finals, partials, extends, typed
<1>6. finals \o partials \in Seq(Events)
  BY <1>3, <1>4, ConcatProperties
<1>7. hybrid_pending => finals \o partials \in Seq(Revisions)
  BY <1>1, <1>3, <1>4, ConcatEmptySeq
<1>8. CASE finished
  BY <1>1, <1>5, <1>6, <1>7, <1>8, ClosingAdds
<1>9. CASE ~finished
  BY <1>1, <1>5, <1>6, <1>7, <1>9, OutboxAdds DEF Adds
<1> QED
  BY <1>8, <1>9

(* Parakeet adds its chunks' texts, and a final when it closes: no press   *)
(* is then undecided.                                                      *)
LEMMA ParakeetAdds ==
  ASSUME TypeOK, NEW t \in Heard, DecodeChunk(t) \/ Flush(t)
  PROVE  Adds(outbox')
<1>1. outbox = <<>> /\ backend = "parakeet" /\ backend' = backend /\ channel' = channel
  BY DEF DecodeChunk, Flush, Running, config
<1>2. t \in Text /\ last_text \in Text
  BY HeardIsText DEF TypeOK
<1>3. \A seg : ExpectedNext(seg)
  BY <1>1 DEF ExpectedNext
<1>4. CASE DecodeChunk(t)
  <2>1. outbox' = <<>> \/ outbox' = <<Partial(t)>>
    BY <1>4 DEF DecodeChunk
  <2>0. <<Partial(t)>> \in Seq(Events) /\ <<Partial(t)>> \in Seq(Revisions)
    BY <1>2, EndsAdd
  <2>2. outbox' \in Seq(Events) /\ outbox' \in Seq(Revisions)
    BY <2>0, <2>1, NothingAdded
  <2>3. ASSUME NEW from \in Segments
        PROVE  \E to \in Segments : Leads(from, outbox', to)
    <3>1. Leads(from, <<>>, from) /\ \E to \in Segments : Leads(from, <<Partial(t)>>, to)
      <4>1. Leads(from, <<Partial(t)>>, Seg(from.kept, from.partial \o t))
        BY <1>2, PartialLeads
      <4>2. <<Partial(t)>> \in Seq(Events)
        BY <1>2, EndsAdd
      <4> QED
        BY <4>1, <4>2, LeadsNowhere, LeadsType
    <3> QED
      BY <2>1, <3>1
  <2>4. LeadsToBelief(outbox')
    BY <1>3, <2>3 DEF LeadsToBelief
  <2> QED
    BY <1>1, <2>2, <2>4, OutboxAdds DEF Adds
<1>5. CASE Flush(t)
  <2>1. PICK rest \in {t, last_text} :
          Close(IF rest = <<>> THEN <<>> ELSE <<Final(rest)>>)
    BY <1>5 DEF Flush
  <2> DEFINE events == IF rest = <<>> THEN <<>> ELSE <<Final(rest)>>
  <2>2. rest \in Text
    BY <1>2, <2>1
  <2>3. events \in Seq(Events)
    BY <2>2, EventTypes
  <2>4. ASSUME NEW from \in Segments
        PROVE  \E to \in Segments : Leads(from, events, to)
    <3>1. CASE rest = <<>>
      BY <3>1, LeadsNowhere
    <3>2. CASE rest # <<>>
      <4>1. Leads(from, <<Final(rest)>>, Seg(from.kept \o from.partial \o rest, <<>>))
        BY <2>2, <3>2, FinalLeads
      <4>2. events = <<Final(rest)>> /\ <<Final(rest)>> \in Seq(Events)
        BY <2>2, <3>2, EventTypes
      <4> QED
        BY <4>1, <4>2, LeadsType
    <3> QED
      BY <3>1, <3>2
  <2> HIDE DEF events
  <2>5. LeadsToBelief(events)
    BY <1>3, <2>4 DEF LeadsToBelief
  <2>6. eof \/ cancel
    BY <1>5 DEF Flush
  <2> QED
    BY <1>1, <2>1, <2>3, <2>5, <2>6, ClosingAdds DEF events
<1> QED
  BY <1>4, <1>5

LEMMA BackendBelieves ==
  ASSUME StreamInv, Backend, PrivateFinals = FALSE
  PROVE  Believed'
<1>1. TypeOK /\ Inv /\ Believed
  BY DEF StreamInv, Inv
<1>2. UNCHANGED <<config, signals, daemon, text>>
  BY DEF Backend, Send, Connect, ConnectFails, SeeCancel, SendEndOfAudio, DrainTimeout,
         ServerCloses, TaskEnds, DecodeFails, ServerMessage, DecodeChunk, Flush
<1>3. \E events : Adds(events)
  <2>1. ASSUME Send \/ Connect \/ SendEndOfAudio \/ TaskEnds PROVE Adds(<<>>)
    BY <1>1, <2>1, SendAdds, QuietAdds
  <2>2. ASSUME ConnectFails \/ SeeCancel \/ DrainTimeout \/ ServerCloses \/ DecodeFails
        PROVE  Adds(outbox')
    BY <1>1, <2>2, EndingAdds
  <2>3. ASSUME NEW f \in Heard, NEW p \in Heard, NEW finished \in BOOLEAN,
               ServerMessage(f, p, finished)
        PROVE  Adds(outbox')
    BY <1>1, <2>3, MessageAdds
  <2>4. ASSUME NEW t \in Heard, DecodeChunk(t) \/ Flush(t) PROVE Adds(outbox')
    BY <1>1, <2>4, ParakeetAdds
  <2> QED
    BY <2>1, <2>2, <2>3, <2>4 DEF Backend
<1> QED
  BY <1>1, <1>2, <1>3, AddsKeepsBelief

-----------------------------------------------------------------------------
(* The daemon's steps.                                                     *)

LEMMA SoundTruthful == Sound => Truthful
BY DEF Sound, Truthful

LEMMA SoundDeliveries ==
  ASSUME Sound, NEW t \in Text
  PROVE  /\ Deliveries(t) = {Delivery(TRUE, t)}
         /\ Delivers(t, Delivery(TRUE, t))
         /\ Erased = {TRUE}
<1>1. t \o <<>> = t /\ <<>> \o t = t /\ Len(t) \in Nat /\ Len(t) <= Len(t)
  BY TextsJoined DEF Text
<1>2. trailer = <<>> /\ faults = {} /\ Parts(t) = {<<>>}
  BY DEF Sound, Parts
<1> QED
  BY <1>1, <1>2 DEF Deliveries, Delivers, Delivery, Erased

(* The first event on its way: it fits what is seen, and the others go on  *)
(* from what it makes of it.                                               *)
LEMMA FirstFits ==
  ASSUME TypeOK, Pumping, Receive, UNCHANGED outbox
  PROVE  /\ Coming # <<>> /\ Head(Coming) = Head(channel)
         /\ Coming' = Tail(Coming) /\ Coming \in Seq(Events)
<1>1. channel \in Seq(Events) /\ outbox \in Seq(Events) /\ channel # <<>>
  BY DEF TypeOK, Pumping
<1> DEFINE e == Head(channel)
           rest == Tail(channel)
<1>2. e \in Events /\ rest \in Seq(Events) /\ <<e>> \o rest = channel
  BY <1>1, HeadTailProperties, HeadAndTail
<1>3. channel' = rest
  BY DEF Receive
<1> HIDE DEF e, rest
<1>4. Coming = <<e>> \o (rest \o outbox) /\ rest \o outbox \in Seq(Events)
  <2>1. (<<e>> \o rest) \o outbox = <<e>> \o (rest \o outbox)
    BY <1>1, <1>2, ConcatAssociative
  <2> QED
    BY <1>1, <1>2, <2>1, ConcatProperties DEF Coming
<1>5. Head(<<e>> \o (rest \o outbox)) = e /\ Tail(<<e>> \o (rest \o outbox)) = rest \o outbox
      /\ <<e>> \o (rest \o outbox) # <<>>
  BY <1>2, <1>4
<1>6. Coming' = rest \o outbox
  BY <1>3 DEF Coming
<1> QED
  BY <1>4, <1>5, <1>6, ComingType DEF e

LEMMA FirstLeadsOn ==
  ASSUME TypeOK, OnTheWay, Pumping, Receive,
         UNCHANGED <<outbox, backend, transcript, typed_partial>>
  PROVE  /\ Fits(Seen, Head(channel))
         /\ Seen' = Step(Seen, Head(channel)) => OnTheWay'
<1>1. /\ Coming # <<>> /\ Head(Coming) = Head(channel)
      /\ Coming' = Tail(Coming) /\ Coming \in Seq(Events)
  BY FirstFits
<1>2. PICK to \in Segments : Leads(Seen, Coming, to) /\ Expected(to)
  BY DEF OnTheWay
<1>3. /\ Fits(Seen, Head(channel))
      /\ Leads(Step(Seen, Head(channel)), Coming', to)
  BY <1>1, <1>2, LeadsPast
<1>4. Expected(to)'
  BY <1>2 DEF Expected
<1> QED
  BY <1>2, <1>3, <1>4 DEF OnTheWay

-----------------------------------------------------------------------------
LEMMA SeenDecided ==
  /\ session \in Sessions /\ ~hybrid_pending => Seen = Remembers(Now)
  /\ session' \in Sessions /\ ~hybrid_pending' =>
       Seen' = Remembers(Now')
<1>1. /\ \A s \in Sessions : s.partial \o <<>> = s.partial
      /\ Remembers(Now) = Seg(session.finalized, session.partial)
      /\ Remembers(Now)' = Seg(session'.finalized, session'.partial)
  BY ConcatText, NowParts DEF Sessions, Remembers
<1>2. ASSUME session \in Sessions, ~hybrid_pending
      PROVE  Seen = Remembers(Now)
  BY <1>1, <1>2 DEF Seen
<1>3. ASSUME session' \in Sessions, ~hybrid_pending'
      PROVE  Seen' = Remembers(Now')
  <2>1. Seen' = Seg(session'.finalized, session'.partial \o <<>>)
    BY <1>3 DEF Seen
  <2> QED
    BY <1>1, <1>3, <2>1
<1> QED
  BY <1>2, <1>3

LEMMA SurfaceNow ==
  ASSUME TypeOK
  PROVE  /\ Now \in Surfaces
         /\ Whole(Now) <=> session.finalized \o session.partial = cursor
         /\ Counted(Now) <=> session.typed_chars = Len(cursor)
BY TypeParts, NowType, NowParts DEF Whole, Counted

LEMMA ShownIs ==
  ASSUME NEW after, Show(after), after \in Surfaces
  PROVE  /\ session' = after.session /\ cursor' = after.cursor
         /\ after = Now'
         /\ Whole(after) => session'.finalized \o session'.partial = cursor'
<1>1. session' = after.session /\ cursor' = after.cursor /\ lost' = after.lost
  BY DEF Show
<1>2. after = [session |-> after.session, cursor |-> after.cursor, lost |-> after.lost]
  BY DEF Surfaces
<1> QED
  BY <1>1, <1>2 DEF Now, Surface, Whole

(* What is typed of a partial, or of the partials that were kept back.     *)
LEMMA PartialShown ==
  ASSUME Inv, Sound, WholeSession, session.open, NEW t \in Text,
         \E given \in Deliveries(t) :
           Show(TypePartialDelta(Now, t, given)),
         session' \in Sessions
  PROVE  /\ Remembers(Now')
              = Seg(session.finalized, session.partial \o t)
         /\ session'.finalized \o session'.partial = cursor'
<1> DEFINE at == Now
           given == Delivery(TRUE, t)
           after == TypePartialDelta(at, t, given)
<1>2. at \in Surfaces /\ Whole(at)
  BY SurfaceNow DEF WholeSession, Inv
<1>3. Show(after) /\ Delivers(t, given)
  BY SoundDeliveries
<1>4. after \in Surfaces
  BY <1>2, <1>3, TypePartialDeltaKeeps DEF Keeps
<1>5. /\ Remembers(after) = Seg(at.session.finalized, at.session.partial \o t)
      /\ Whole(after)
  <2>1. given.ok = Done /\ given.shown = t
    BY DEF Delivery, Done
  <2> HIDE DEF given
  <2> QED
    BY <1>2, <2>1, PartialIsTyped
<1>6. at.session = session
  BY NowParts
<1> HIDE DEF at, after
<1> QED
  BY <1>3, <1>4, <1>5, <1>6, ShownIs

LEMMA PartialBelieves ==
  ASSUME StreamInv, StreamInv => Inv', ReceivePartial
  PROVE  Believed'
<1> DEFINE e == Head(channel)
<1>1. TypeOK /\ Inv /\ Believed /\ Inv' /\ session \in Sessions /\ session' \in Sessions
  BY DEF StreamInv, Inv, TypeOK, Sessions
<1>2. /\ Pumping /\ e.kind = "Partial" /\ Receive
      /\ UNCHANGED <<outbox, backend, faults, trailer, transcript, typed_partial, eof, cancel,
                     phase, hybrid_pending>>
      /\ partial_buffer' = IF hybrid_pending THEN partial_buffer \o e.text ELSE e.text
      /\ IF hybrid_pending \/ ~session.open THEN UNCHANGED <<session, cursor, lost>>
         ELSE \E given \in Deliveries(e.text) :
                Show(TypePartialDelta(Now, e.text, given))
  BY DEF ReceivePartial, config, recogniser, decoder, signals
<1>3. e \in Events /\ e.text \in Text
  BY <1>1, <1>2, ReceiveType, TypeParts DEF Events
<1>4. /\ Coming # <<>> /\ Head(Coming) = e /\ Coming' = Tail(Coming)
  BY <1>1, <1>2, FirstFits
<1>5. session'.open = session.open
  <2>1. CASE hybrid_pending \/ ~session.open
    BY <1>2, <2>1
  <2>2. CASE ~(hybrid_pending \/ ~session.open)
    <3>1. PICK given \in Deliveries(e.text) :
            Show(TypePartialDelta(Now, e.text, given))
      BY <1>2, <2>2
    <3>2. Delivers(e.text, given) /\ Now \in Surfaces
      BY <1>1, <1>3, <3>1, DeliveriesDeliver, SurfaceNow DEF TypeOK
    <3>3. Keeps(Now, TypePartialDelta(Now, e.text, given))
      BY <1>3, <3>2, TypePartialDeltaKeeps
    <3> QED
      BY <3>1, <3>3, NowParts DEF Keeps, Show
  <2> QED
    BY <2>1, <2>2
<1>6. ASSUME Sound, Streaming PROVE OnTheWay' /\ WholeSession'
  <2>1. Fits(Seen, e) /\ (Seen' = Step(Seen, e) => OnTheWay')
    BY <1>1, <1>2, <1>6, FirstLeadsOn DEF Believed
  <2>2. Step(Seen, e) = Seg(Seen.kept, Seen.partial \o e.text)
    BY <1>2 DEF Step
  <2>3. /\ WholeSession /\ session.finalized \in Text /\ session.partial \in Text
        /\ partial_buffer \in Text
    BY <1>1, <1>6 DEF Believed, TypeOK, Sessions
  <2>4. CASE hybrid_pending
    <3>1. /\ session' = session /\ cursor' = cursor
          /\ partial_buffer' = partial_buffer \o e.text
      BY <1>2, <2>4
    <3>2. /\ Seen = Seg(session.finalized, session.partial \o partial_buffer)
          /\ Seen' = Seg(session.finalized, session.partial \o (partial_buffer \o e.text))
      BY <1>2, <2>4, <3>1 DEF Seen
    <3>3. session.partial \o (partial_buffer \o e.text) = (session.partial \o partial_buffer) \o e.text
      BY <1>3, <2>3, ConcatText
    <3>4. Seen.kept = session.finalized /\ Seen.partial = session.partial \o partial_buffer
      BY <3>2 DEF Seg
    <3>5. Seen' = Step(Seen, e)
      BY <2>2, <3>2, <3>3, <3>4
    <3> QED
      BY <2>1, <2>3, <3>1, <3>5 DEF WholeSession
  <2>5. CASE ~hybrid_pending
    <3>1. /\ Remembers(Now')
               = Seg(session.finalized, session.partial \o e.text)
          /\ session'.finalized \o session'.partial = cursor'
      BY <1>1, <1>2, <1>3, <1>6, <2>3, <2>5, PartialShown DEF Streaming
    <3>2. Seen = Seg(session.finalized, session.partial)
      BY <1>1, <2>5, SeenDecided, NowParts DEF Remembers
    <3>3. Seen' = Step(Seen, e)
      BY <1>1, <1>2, <2>2, <2>5, <3>1, <3>2, SeenDecided DEF Seg
    <3> QED
      BY <2>1, <3>1, <3>3 DEF WholeSession
  <2> QED
    BY <2>4, <2>5
<1>7. ASSUME Sound PROVE WholeSession'
  <2>1. CASE session.open
    BY <1>2, <1>6, <1>7, <2>1 DEF Streaming, Pumping
  <2>2. CASE ~session.open
    BY <1>5, <2>2 DEF WholeSession
  <2> QED
    BY <2>1, <2>2
<1>8. Undecided'
  <2>1. SUFFICES ASSUME Streaming', hybrid_pending'
                 PROVE  /\ session' = NewSession /\ cursor' = <<>> /\ ~eof'
                        /\ Coming' \in Seq(Revisions)
    BY DEF Undecided, NewSession, NoSession
  <2>2. Streaming /\ hybrid_pending
    BY <1>2, <1>5, <2>1 DEF Streaming, Pumping
  <2>3. session = NewSession /\ cursor = <<>> /\ ~eof /\ Coming \in Seq(Revisions)
    BY <1>1, <2>2 DEF Believed, Undecided
  <2>4. Coming' \in Seq(Revisions)
    BY <1>4, <2>3, HeadTailProperties
  <2> QED
    BY <1>2, <2>2, <2>3, <2>4
<1>9. Streaming' => Streaming
  BY <1>2, <1>5 DEF Streaming, Pumping
<1>10. (Sound' <=> Sound) /\ NotCancelled'
  BY <1>1, <1>2 DEF Sound, NotCancelled, Believed
<1> QED
  BY <1>6, <1>7, <1>8, <1>9, <1>10 DEF Believed

-----------------------------------------------------------------------------
(* A final or a replacement: it is none of those that may come before the  *)
(* press is decided.                                                       *)
LEMMA FinalShown ==
  ASSUME Inv, Believed, ReceiveFinal, Streaming
  PROVE  /\ ~hybrid_pending /\ session'.open
         /\ Sound => /\ Fits(Seen, Head(channel))
                     /\ Seen = Remembers(Now)
                     /\ Remembers(Now') = Step(Seen, Head(channel))
                     /\ session'.finalized \o session'.partial = cursor'
<1> DEFINE e == Head(channel)
           at == Now
<1>1. TypeOK /\ session \in Sessions /\ cursor \in Text
  BY DEF Inv, TypeOK, Sessions
<1>2. /\ Pumping /\ e.kind \in {"Final", "Replace"} /\ Receive /\ session.open
      /\ UNCHANGED <<outbox, backend, transcript, typed_partial>>
  BY DEF ReceiveFinal, Streaming, config, recogniser, decoder
<1>3. e \in Events /\ at \in Surfaces
  BY <1>1, <1>2, ReceiveType, TypeParts, SurfaceNow
<1>4. /\ Coming # <<>> /\ Head(Coming) = e
  BY <1>1, <1>2, FirstFits
<1>5. PICK given \in Deliveries(e.text), erased \in Erased : Show(Typed(at, e, given, erased))
  BY <1>2 DEF ReceiveFinal
<1>6. session'.open
  <2>1. e.text \in Text /\ trailer \in Text /\ erased \in BOOLEAN
    BY <1>1, <1>3, ErasedType DEF Events, TypeOK
  <2>2. Delivers(e.text, given)
    BY <2>1, DeliveriesDeliver
  <2>3. Keeps(at, Typed(at, e, given, erased))
    BY <1>2, <1>3, <2>1, <2>2, TypedKeeps
  <2> QED
    BY <1>2, <1>5, <2>3, NowParts DEF Keeps, Show
<1>7. ~hybrid_pending
  <2>1. ASSUME hybrid_pending PROVE FALSE
    <3>1. Coming \in Seq(Revisions)
      BY <2>1 DEF Believed, Undecided
    <3>2. Head(Coming) \in Revisions
      BY <1>4, <3>1, HeadTailProperties
    <3> QED
      BY <1>2, <1>4, <3>2 DEF Revisions
  <2> QED
    BY <2>1
<1>8. ASSUME Sound
      PROVE  /\ Fits(Seen, e) /\ Seen = Remembers(at)
             /\ Remembers(Now') = Step(Seen, e)
             /\ session'.finalized \o session'.partial = cursor'
  <2> DEFINE given0 == Delivery(TRUE, e.text)
             after == Typed(at, e, given0, Done)
  <2>1. Fits(Seen, e)
    BY <1>1, <1>2, <1>8, FirstLeadsOn DEF Believed
  <2>2. Seen = Remembers(at)
    BY <1>1, <1>7, SeenDecided
  <2>3. Counted(at) /\ Whole(at)
    BY <1>1, <1>2, <1>8, SurfaceNow, SoundTruthful
    DEF Believed, WholeSession, Inv, CountsTheCursor
  <2>4. Show(after) /\ Delivers(e.text, given0)
    BY <1>3, <1>5, <1>8, SoundDeliveries DEF Events, Done
  <2>5. after \in Surfaces
    BY <1>2, <1>3, <2>4, TypedKeeps DEF Keeps, Done
  <2>6. Remembers(after) = Step(Seen, e) /\ Whole(after)
    <3>1. given0.ok = Done /\ given0.shown = e.text
      BY DEF Delivery, Done
    <3> HIDE DEF given0
    <3> QED
      BY <1>2, <1>3, <2>1, <2>2, <2>3, <3>1, FinalIsTyped
  <2> HIDE DEF after
  <2> QED
    BY <2>1, <2>2, <2>4, <2>5, <2>6, ShownIs
<1> QED
  BY <1>6, <1>7, <1>8

LEMMA FinalBelieves ==
  ASSUME StreamInv, StreamInv => Inv', ReceiveFinal
  PROVE  Believed'
<1>1. TypeOK /\ Inv /\ Believed /\ Inv' /\ session \in Sessions /\ session' \in Sessions
  BY DEF StreamInv, Inv, TypeOK, Sessions
<1>2. /\ Pumping /\ Receive /\ phase = "streaming"
      /\ UNCHANGED <<outbox, backend, faults, trailer, transcript, typed_partial, cancel, phase,
                     hybrid_pending>>
      /\ ~session.open => UNCHANGED <<session, cursor, lost>>
  BY DEF ReceiveFinal, Pumping, config, recogniser, decoder, signals, daemon
<1>3. Streaming' => Streaming
  BY <1>2 DEF Streaming
<1>4. ASSUME Sound, Streaming PROVE OnTheWay' /\ WholeSession'
  <2>1. Seen' = Step(Seen, Head(channel)) => OnTheWay'
    BY <1>1, <1>2, <1>4, FirstLeadsOn DEF Believed
  <2>2. Seen' = Remembers(Now')
    BY <1>1, <1>2, <1>4, FinalShown, SeenDecided
  <2> QED
    BY <1>1, <1>4, <2>1, <2>2, FinalShown DEF WholeSession
<1>5. Sound => WholeSession'
  BY <1>2, <1>4 DEF WholeSession, Streaming
<1>6. Undecided'
  BY <1>1, <1>2, <1>3, FinalShown DEF Undecided, Streaming
<1>7. (Sound' <=> Sound) /\ NotCancelled'
  BY <1>1, <1>2 DEF Sound, NotCancelled, Believed
<1> QED
  BY <1>3, <1>4, <1>5, <1>6, <1>7 DEF Believed

(* The steps that end a stream or its session.                             *)
LEMMA EndBelieves ==
  ASSUME StreamInv,
         \/ ReceiveEnd \/ EndStreaming \/ TapDone \/ CancelDone \/ Tap
         \/ StopAndDisown \/ Cancel
  PROVE  Believed'
<1>0. Believed /\ ~NoSession.open
  BY DEF StreamInv, NoSession
<1>1. /\ UNCHANGED <<faults, trailer>>
      /\ session' = NoSession \/ (phase' # "streaming" /\ UNCHANGED <<session, cursor, lost>>)
      /\ phase' # "streaming" \/ UNCHANGED <<phase, cancel>>
  <2>1. CancelDone => session' = NoSession
    BY CancelShown, TypeParts DEF StreamInv, Inv
  <2> QED
    BY <2>1 DEF ReceiveEnd, EndStreaming, TapDone, CancelDone, Tap, StopAndDisown, Cancel,
               config, daemon, text
<1>2. ~Streaming' /\ (Sound' <=> Sound)
  BY <1>0, <1>1 DEF Streaming, Sound
<1>3. WholeSession => WholeSession'
  BY <1>0, <1>1 DEF WholeSession
<1>4. NotCancelled => NotCancelled'
  BY <1>1 DEF NotCancelled
<1>5. Undecided'
  BY <1>2 DEF Undecided, Streaming
<1> QED
  BY <1>0, <1>2, <1>3, <1>4, <1>5 DEF Believed

LEMMA PromoteBelieves ==
  ASSUME StreamInv, StreamInv => Inv', Promote
  PROVE  Believed'
<1>1. TypeOK /\ Inv /\ Believed /\ Inv' /\ session \in Sessions /\ session' \in Sessions
      /\ cursor \in Text /\ partial_buffer \in Text
  BY DEF StreamInv, Inv, TypeOK, Sessions
<1>2. /\ phase = "streaming" /\ hybrid_pending /\ ~hybrid_pending'
      /\ UNCHANGED <<outbox, channel, backend, faults, trailer, transcript, typed_partial, eof,
                     cancel, phase, partial_buffer>>
      /\ IF ~session.open THEN UNCHANGED <<session, cursor, lost>>
         ELSE \E given \in Deliveries(partial_buffer) :
                Show(TypePartialDelta(Now, partial_buffer, given))
  BY DEF Promote, config, recogniser, decoder, signals
<1>3. session'.open = session.open
  <2>1. CASE ~session.open
    BY <1>2, <2>1
  <2>2. CASE session.open
    <3>1. PICK given \in Deliveries(partial_buffer) :
            Show(TypePartialDelta(Now, partial_buffer, given))
      BY <1>2, <2>2
    <3>2. Delivers(partial_buffer, given) /\ Now \in Surfaces
      BY <1>1, <3>1, DeliveriesDeliver, SurfaceNow DEF TypeOK
    <3>3. Keeps(Now, TypePartialDelta(Now, partial_buffer, given))
      BY <1>1, <3>2, TypePartialDeltaKeeps
    <3> QED
      BY <3>1, <3>3, NowParts DEF Keeps, Show
  <2> QED
    BY <2>1, <2>2
<1>4. ASSUME Sound, session.open PROVE OnTheWay' /\ WholeSession'
  <2>1. WholeSession /\ OnTheWay
    BY <1>1, <1>2, <1>4 DEF Believed, Streaming
  <2>2. /\ Remembers(Now')
             = Seg(session.finalized, session.partial \o partial_buffer)
        /\ session'.finalized \o session'.partial = cursor'
    BY <1>1, <1>2, <1>4, <2>1, PartialShown
  <2>3. Seen' = Seen
    BY <1>1, <1>2, <2>2, SeenDecided DEF Seen
  <2>4. Coming' = Coming
    BY <1>2 DEF Coming
  <2>5. \A to : Expected(to) => ExpectedNext(to)
    BY <1>2 DEF Expected, ExpectedNext
  <2> QED
    BY <2>1, <2>2, <2>3, <2>4, <2>5 DEF WholeSession, OnTheWay, Expected, ExpectedNext
<1>5. Sound => WholeSession'
  BY <1>3, <1>4 DEF WholeSession
<1>6. (Streaming' => session.open) /\ Undecided'
  BY <1>2, <1>3 DEF Streaming, Undecided
<1>7. (Sound' <=> Sound) /\ NotCancelled'
  BY <1>1, <1>2 DEF Sound, NotCancelled, Believed
<1> QED
  BY <1>4, <1>5, <1>6, <1>7 DEF Believed

LEMMA QuietBelieves ==
  ASSUME StreamInv, Stop \/ UNCHANGED vars
  PROVE  Believed'
<1>0. Believed
  BY DEF StreamInv
<1>1. /\ UNCHANGED <<outbox, channel, backend, faults, trailer, transcript, typed_partial,
                     cancel, phase, hybrid_pending, partial_buffer, session, cursor>>
      /\ ~hybrid_pending \/ eof' = eof
  BY DEF Stop, vars, config, recogniser, decoder, signals, daemon, text
<1>2. /\ Coming' = Coming /\ Seen' = Seen /\ Streaming' = Streaming /\ Sound' = Sound
      /\ WholeSession' = WholeSession /\ NotCancelled' = NotCancelled
  BY <1>1 DEF Coming, Seen, Streaming, Sound, WholeSession, NotCancelled
<1>3. \A to : Expected(to) => ExpectedNext(to)
  BY <1>1 DEF Expected, ExpectedNext
<1>4. OnTheWay => OnTheWay'
  BY <1>2, <1>3 DEF OnTheWay, Expected, ExpectedNext
<1>5. Undecided => Undecided'
  BY <1>1, <1>2 DEF Undecided
<1> QED
  BY <1>0, <1>2, <1>4, <1>5 DEF Believed

LEMMA StreamInvariant == PrivateFinals = FALSE => (Spec => []StreamInv)
<1> SUFFICES ASSUME PrivateFinals = FALSE PROVE Spec => []StreamInv
  OBVIOUS
<1>1. Init => StreamInv
  BY TypeInit, BelievedInit DEF StreamInv, Inv, Init, CountsTheCursor, NewSession, NoSession
<1>2. StreamInv /\ [Next]_vars => StreamInv'
  <2> SUFFICES ASSUME StreamInv, [Next]_vars PROVE StreamInv'
    OBVIOUS
  <2>1. Inv'
    BY BackendNext, BackendLeavesTheText, PumpNext, KeysNext
    DEF StreamInv, Inv, CountsTheCursor, Truthful, Next
  <2>2. CASE Backend
    BY <2>1, <2>2, BackendBelieves DEF StreamInv
  <2>3. CASE ReceivePartial
    BY <2>1, <2>3, PartialBelieves DEF StreamInv
  <2>4. CASE ReceiveFinal
    BY <2>1, <2>4, FinalBelieves DEF StreamInv
  <2>5. CASE Promote
    BY <2>1, <2>5, PromoteBelieves DEF StreamInv
  <2>6. CASE Stop \/ UNCHANGED vars
    BY <2>1, <2>6, QuietBelieves DEF StreamInv
  <2>7. CASE \/ ReceiveEnd \/ EndStreaming \/ TapDone \/ CancelDone \/ Tap
             \/ StopAndDisown \/ Cancel
    BY <2>1, <2>7, EndBelieves DEF StreamInv
  <2> QED
    BY <2>2, <2>3, <2>4, <2>5, <2>6, <2>7 DEF Next, Pump
<1> QED
  BY <1>1, <1>2, PTL DEF Spec

-----------------------------------------------------------------------------
(* The text the user will see is the end of the path of its events.        *)

LEMMA AfterEventsIs ==
  ASSUME NEW t, NEW events,
         NEW shown \in [0 .. Len(events) -> Text], Len(events) \in Nat,
         shown[0] = t,
         \A n \in 1 .. Len(events) :
           shown[n] = Shorter(shown[n - 1], events[n].backspace) \o events[n].text
  PROVE  AfterEvents(t, events) = shown[Len(events)]
<1> DEFINE N == Len(events)
           Once(h) == [n \in 0 .. N |->
                          IF n = 0 THEN t
                          ELSE Shorter(h[n - 1], events[n].backspace) \o events[n].text]
           after == CHOOSE h : h = Once(h)
<1>1. AfterEvents(t, events) = after[N]
  BY DEF AfterEvents
<1>2. shown = Once(shown)
  <2>1. \A n \in 0 .. N : n # 0 => n \in 1 .. N
    OBVIOUS
  <2>2. \A n \in 0 .. N :
          shown[n] = IF n = 0 THEN t
                     ELSE Shorter(shown[n - 1], events[n].backspace) \o events[n].text
    BY <2>1
  <2>3. shown = [n \in 0 .. N |-> shown[n]]
    OBVIOUS
  <2> QED
    BY <2>2, <2>3
<1>3. after = Once(after)
  <2> HIDE DEF Once
  <2> QED
    BY <1>2
<1> HIDE DEF after
<1>4. /\ after[0] = t
      /\ \A n \in 1 .. N :
           after[n] = Shorter(after[n - 1], events[n].backspace) \o events[n].text
  <2>1. \A n \in 0 .. N :
          after[n] = IF n = 0 THEN t
                     ELSE Shorter(after[n - 1], events[n].backspace) \o events[n].text
    BY <1>3, Zenon
  <2>2. 0 \in 0 .. N /\ \A n \in 1 .. N : n \in 0 .. N /\ n # 0
    OBVIOUS
  <2> QED
    BY <2>1, <2>2
<1> DEFINE same == {n \in Nat : n <= N => after[n] = shown[n]}
<1>5. 0 \in same
  BY <1>4
<1>6. ASSUME NEW n \in same PROVE n + 1 \in same
  <2>0. n \in Nat /\ n + 1 \in Nat /\ (n <= N => after[n] = shown[n])
    OBVIOUS
  <2> SUFFICES ASSUME n + 1 <= N PROVE after[n + 1] = shown[n + 1]
    BY <2>0
  <2> DEFINE m == n + 1
  <2>1. m \in 1 .. N /\ m - 1 = n /\ n <= N
    BY <2>0
  <2> HIDE DEF m
  <2>2. after[m] = Shorter(after[m - 1], events[m].backspace) \o events[m].text
    BY <1>4, <2>1
  <2>3. shown[m] = Shorter(shown[m - 1], events[m].backspace) \o events[m].text
    BY <2>1
  <2>4. after[m] = shown[m]
    BY <2>0, <2>1, <2>2, <2>3
  <2> QED
    BY <2>4 DEF m
<1>7. same = Nat
  <2> HIDE DEF same
  <2>1. same \subseteq Nat
    BY DEF same
  <2> QED
    BY <1>5, <1>6, <2>1, Induction
<1>8. N \in same
  BY <1>7
<1> QED
  BY <1>1, <1>8

LEMMA PathIsShown ==
  ASSUME NEW from, NEW events \in Seq(Events), NEW to, Leads(from, events, to)
  PROVE  AfterEvents(from.kept \o from.partial, events) = to.kept \o to.partial
<1> DEFINE N == Len(events)
<1>0. N \in Nat
  BY LenProperties
<1>1. PICK path \in [0 .. N -> Segments] : Path(path, from, events, to)
  BY DEF Leads
<1>2. /\ path[0] = from /\ path[N] = to
      /\ \A i \in 1 .. N :
           Fits(path[i - 1], events[i]) /\ path[i] = Step(path[i - 1], events[i])
  BY <1>1 DEF Path
<1> DEFINE shown == [i \in 0 .. N |-> path[i].kept \o path[i].partial]
<1>3. \A i \in 0 .. N : path[i] \in Segments
  BY <1>1
<1>4. shown \in [0 .. N -> Text]
  <2>1. \A seg \in Segments : seg.kept \o seg.partial \in Text
    BY ConcatText DEF Segments
  <2> QED
    BY <1>3, <2>1
<1>5. \A i \in 0 .. N : shown[i] = path[i].kept \o path[i].partial
  OBVIOUS
<1> HIDE DEF shown
<1>6. ASSUME NEW n \in 1 .. N
      PROVE  shown[n] = Shorter(shown[n - 1], events[n].backspace) \o events[n].text
  <2>1. n \in 0 .. N /\ n - 1 \in 0 .. N
    BY <1>0
  <2> DEFINE seg == path[n - 1]
  <2>2. seg \in Segments /\ Fits(seg, events[n]) /\ path[n] = Step(seg, events[n])
    BY <1>2, <1>3, <2>1
  <2>3. shown[n - 1] = seg.kept \o seg.partial /\ shown[n] = path[n].kept \o path[n].partial
    BY <1>5, <2>1
  <2> HIDE DEF seg
  <2> QED
    BY <2>2, <2>3, StepType
<1>7. shown[0] = from.kept \o from.partial /\ shown[N] = to.kept \o to.partial
  <2>1. 0 \in 0 .. N /\ N \in 0 .. N
    BY <1>0
  <2> QED
    BY <1>2, <1>5, <2>1
<1>8. AfterEvents(from.kept \o from.partial, events) = shown[N]
  BY <1>0, <1>4, <1>6, <1>7, AfterEventsIs
<1> QED
  BY <1>7, <1>8

-----------------------------------------------------------------------------
(* With nothing failing, the text typed and the events on their way make   *)
(* what the server committed itself to and the partial believed typed,     *)
(* whatever the server says and however often it revises itself.           *)
THEOREM CursorWillAgree == PrivateFinals = FALSE => (Spec => []CursorFollowsServer)
<1>1. ASSUME StreamInv PROVE CursorFollowsServer
  <2> SUFFICES ASSUME Sound, backend = "soniox", phase = "streaming", session.open
               PROVE  AfterEvents(IF hybrid_pending THEN partial_buffer ELSE cursor,
                                  channel \o outbox)
                        = transcript \o typed_partial
    BY DEF CursorFollowsServer
  <2>1. /\ TypeOK /\ WholeSession /\ OnTheWay /\ Undecided /\ Streaming
        /\ session \in Sessions /\ partial_buffer \in Text
    BY <1>1 DEF StreamInv, Inv, Believed, Streaming, TypeOK, Sessions
  <2>2. PICK to \in Segments : Leads(Seen, Coming, to) /\ Believes(to, transcript, typed_partial)
    BY <2>1 DEF OnTheWay, Expected
  <2>3. AfterEvents(Seen.kept \o Seen.partial, Coming) = transcript \o typed_partial
    BY <2>1, <2>2, ComingType, PathIsShown DEF Believes
  <2>4. /\ Seen.kept = session.finalized
        /\ Seen.partial = session.partial \o (IF hybrid_pending THEN partial_buffer ELSE <<>>)
    BY DEF Seen, Seg
  <2>5. Seen.kept \o Seen.partial = IF hybrid_pending THEN partial_buffer ELSE cursor
    <3>1. CASE hybrid_pending
      <4>1. session.finalized = <<>> /\ session.partial = <<>>
        BY <2>1, <3>1 DEF Undecided, NewSession, NoSession
      <4>2. <<>> \o (<<>> \o partial_buffer) = partial_buffer
        BY <2>1, ConcatText
      <4> QED
        BY <2>4, <3>1, <4>1, <4>2
    <3>2. CASE ~hybrid_pending
      <4>1. session.partial \o <<>> = session.partial
        BY <2>1, ConcatText DEF Sessions
      <4> QED
        BY <2>1, <2>4, <3>2, <4>1 DEF WholeSession
    <3> QED
      BY <3>1, <3>2
  <2> QED
    BY <2>3, <2>5 DEF Coming
<1> QED
  BY <1>1, StreamInvariant, PTL

(* The session counts no more letters than are at the cursor unless an     *)
(* output went to the clipboard, exactly those if the outputs report what  *)
(* they did, and with nothing failing remembers exactly what it typed.     *)
THEOREM SessionIsRight == PrivateFinals = FALSE => (Spec => []SessionKnowsTheCursor)
<1>1. StreamInv => SessionKnowsTheCursor
  BY DEF StreamInv, Inv, CountsTheCursor, Believed, WholeSession, SessionKnowsTheCursor
<1> QED
  BY <1>1, StreamInvariant, PTL

-----------------------------------------------------------------------------
(* The refinement.                                                         *)

(* More of the text may be committed, the rest is free.                    *)
LEMMA GoesOn ==
  ASSUME Sound, UNCHANGED <<faults, trailer>>, session.open, session'.open,
         session \in Sessions, session' \in Sessions,
         session.finalized \o session.partial = cursor,
         session'.finalized \o session'.partial = cursor',
         NEW t \in Text, session'.finalized = session.finalized \o t
  PROVE  Promise!Revise
<1> DEFINE k == session.finalized
           p == session.partial
           q == session'.partial
<1>1. /\ k \in Text /\ p \in Text /\ q \in Text /\ session'.finalized = k \o t
      /\ k \o p = cursor /\ (k \o t) \o q = cursor'
  BY DEF Sessions
<1>2. Sound'
  BY DEF Sound
<1> HIDE DEF k, p, q
<1>3. /\ cursor' \in Text /\ cursor \in Text /\ k \o t \in Text /\ t \o q \in Text
      /\ Len(cursor') = Len(k \o t) + Len(q) /\ Len(k \o t) = Len(k) + Len(t)
      /\ Len(k) \in Nat /\ Len(t) \in Nat /\ Len(q) \in Nat
      /\ cursor' = k \o (t \o q)
  <2>1. k \o p \in Text /\ k \o t \in Text /\ t \o q \in Text
    BY <1>1, ConcatText
  <2>2. (k \o t) \o q \in Text /\ Len((k \o t) \o q) = Len(k \o t) + Len(q)
    BY <1>1, <2>1, ConcatText
  <2>3. Len(k \o t) = Len(k) + Len(t) /\ Len(k) \in Nat /\ Len(t) \in Nat /\ Len(q) \in Nat
    BY <1>1, ConcatText
  <2>4. (k \o t) \o q = k \o (t \o q)
    BY <1>1, ConcatText
  <2> QED
    BY <1>1, <2>1, <2>2, <2>3, <2>4
<1>4. Len(k \o t) \in Len(k) .. Len(cursor') /\ Len(k) \in 0 .. Len(k)
  BY <1>3
<1>5. SubSeq(k \o p, 1, Len(k)) = SubSeq(k, 1, Len(k))
  BY <1>1, <1>4, FrontOfConcat
<1>6. SubSeq(k \o (t \o q), 1, Len(k)) = SubSeq(k, 1, Len(k))
  BY <1>1, <1>3, <1>4, FrontOfConcat
<1>7. SubSeq(cursor', 1, Len(k)) = SubSeq(cursor, 1, Len(k))
  BY <1>1, <1>3, <1>5, <1>6
<1> QED
  BY <1>1, <1>2, <1>3, <1>4, <1>7 DEF Promise!Revise, Text, k

(* The session is given up: its text stays, or is taken back.              *)
LEMMA ItIsOver ==
  ASSUME Sound, UNCHANGED <<faults, trailer>>, session.open, ~session'.open,
         cursor' = cursor \/ cursor' = <<>>
  PROVE  Promise!Finish
<1>1. Sound'
  BY DEF Sound
<1> QED
  BY <1>1 DEF Promise!Finish

LEMMA NothingShown ==
  ASSUME UNCHANGED <<faults, trailer>>,
         \/ ~Sound
         \/ UNCHANGED <<session, cursor>>
         \/ ~session.open /\ ~session'.open /\ cursor' = cursor
  PROVE  UNCHANGED Promise!vars
<1>1. Sound' <=> Sound
  BY DEF Sound
<1> QED
  BY <1>1 DEF Promise!vars

LEMMA OutputStays == [Next]_vars => UNCHANGED <<faults, trailer>>
BY DEF Next, Backend, Pump, Send, Connect, ConnectFails, SeeCancel, SendEndOfAudio,
       DrainTimeout, ServerCloses, TaskEnds, DecodeFails, ServerMessage, DecodeChunk, Flush,
       ReceivePartial, ReceiveFinal, ReceiveEnd, EndStreaming, TapDone, CancelDone,
       Promote, Tap, Stop, StopAndDisown, Cancel, vars, config

LEMMA PartialStaysOpen ==
  ASSUME StreamInv, session.open, NEW t \in Text,
         \E given \in Deliveries(t) :
           Show(TypePartialDelta(Now, t, given))
  PROVE  session'.open
<1> DEFINE at == Now
<1>1. PICK given \in Deliveries(t) : Show(TypePartialDelta(at, t, given))
  OBVIOUS
<1>2. at \in Surfaces /\ trailer \in Text
  BY SurfaceNow DEF StreamInv, Inv, TypeOK
<1>3. Keeps(at, TypePartialDelta(at, t, given))
  BY <1>2, DeliveriesDeliver, TypePartialDeltaKeeps
<1>4. at.session = session
  BY NowParts
<1> QED
  BY <1>1, <1>3, <1>4 DEF Keeps, Show

LEMMA PartialRefines ==
  ASSUME StreamInv, StreamInv', Sound, session.open, session'.open,
         NEW t \in Text,
         \E given \in Deliveries(t) :
           Show(TypePartialDelta(Now, t, given)),
         UNCHANGED <<faults, trailer>>
  PROVE  Promise!Revise
<1>1. /\ Inv /\ WholeSession /\ session \in Sessions /\ session' \in Sessions
  BY DEF StreamInv, Believed, Inv, TypeOK, Sessions
<1>2. /\ Remembers(Now')
           = Seg(session.finalized, session.partial \o t)
      /\ session'.finalized \o session'.partial = cursor'
  BY <1>1, PartialShown
<1>3. session'.finalized = session.finalized
  BY <1>2, NowParts DEF Remembers, Seg
<1>4. <<>> \in Text /\ session.finalized \o <<>> = session.finalized
  BY <1>1, ConcatText DEF Sessions
<1> QED
  BY <1>1, <1>2, <1>3, <1>4, GoesOn DEF WholeSession

LEMMA FinalRefines ==
  ASSUME StreamInv, StreamInv', Sound, session.open, ReceiveFinal,
         UNCHANGED <<faults, trailer>>
  PROVE  Promise!Revise
<1>1. /\ Inv /\ Believed /\ WholeSession /\ Streaming
      /\ session \in Sessions /\ session' \in Sessions
  BY DEF StreamInv, Believed, Inv, TypeOK, Sessions, Streaming, ReceiveFinal, Pumping
<1> DEFINE e == Head(channel)
<1>2. /\ Fits(Seen, e) /\ Seen = Remembers(Now)
      /\ Remembers(Now') = Step(Seen, e)
      /\ session'.finalized \o session'.partial = cursor' /\ session'.open
  BY <1>1, FinalShown
<1>3. e.kind \in {"Final", "Replace"}
  BY DEF ReceiveFinal
<1>4. /\ Seen.kept = session.finalized /\ Seen.partial = session.partial
      /\ session'.finalized = Step(Seen, e).kept
  BY <1>2, NowParts DEF Remembers, Seg
<1>5. /\ session.finalized \in Text /\ session.partial \in Text
      /\ e.text \in Text /\ e.backspace \in Nat
  BY <1>1, <1>2 DEF Sessions, Fits, Events
<1> HIDE DEF e
<1>6. session'.finalized =
        session.finalized \o Shorter(session.partial, e.backspace) \o e.text
  BY <1>3, <1>4 DEF Step, Seg
<1>7. Shorter(session.partial, e.backspace) \in Text
  BY <1>5, ShorterProperties
<1> DEFINE kept == Shorter(session.partial, e.backspace)
<1>8. /\ kept \o e.text \in Text
      /\ session'.finalized = session.finalized \o (kept \o e.text)
  <2> HIDE DEF kept
  <2>1. (session.finalized \o kept) \o e.text = session.finalized \o (kept \o e.text)
    BY <1>5, <1>7, ConcatText DEF kept
  <2> QED
    BY <1>5, <1>6, <1>7, <2>1, ConcatText DEF kept
<1> HIDE DEF kept
<1> QED
  BY <1>1, <1>2, <1>8, GoesOn DEF WholeSession

LEMMA EndRefines ==
  ASSUME StreamInv, Sound, session.open, EndStreaming \/ TapDone \/ StopAndDisown \/ CancelDone,
         UNCHANGED <<faults, trailer>>
  PROVE  Promise!Finish
<1>0. DaemonOK /\ CountsTheCursor /\ Truthful
  BY TypeParts, SoundTruthful DEF StreamInv, Inv
<1>1. ~session'.open
  BY <1>0, CancelShown DEF EndStreaming, TapDone, StopAndDisown, NoSession
<1>2. CASE EndStreaming \/ TapDone \/ StopAndDisown
  <2>1. cursor' = cursor
    BY <1>2 DEF EndStreaming, TapDone, StopAndDisown
  <2> QED
    BY <1>1, <2>1, ItIsOver
<1>3. CASE CancelDone
  <2>1. cursor' = <<>> \/ cursor' = cursor
    BY <1>0, <1>3, CancelShown
  <2> QED
    BY <1>1, <2>1, ItIsOver
<1> QED
  BY <1>2, <1>3

LEMMA StepRefines ==
  ASSUME StreamInv, StreamInv', [Next]_vars
  PROVE  [Promise!Next]_Promise!vars
<1>0. UNCHANGED <<faults, trailer>>
  BY OutputStays
<1> SUFFICES Promise!Revise \/ Promise!Finish \/ UNCHANGED Promise!vars
  BY DEF Promise!Next
<1>1. CASE ~Sound
  BY <1>0, <1>1, NothingShown
<1>2. CASE Sound /\ ~session.open
  <2>1. ~session'.open /\ cursor' = cursor
    <3>1. ~NoSession.open
      BY DEF NoSession
    <3>2. CASE Backend \/ UNCHANGED vars
      BY <1>2, <3>2, BackendLeavesTheText DEF vars, text
    <3>3. CASE Pump
      <4>1. CASE CancelDone
        BY <1>2, <3>1, <4>1, CancelShown, TypeParts DEF StreamInv, Inv
      <4> QED
        BY <1>2, <3>1, <3>3, <4>1
        DEF Pump, ReceivePartial, ReceiveFinal, ReceiveEnd, EndStreaming, TapDone, text
    <3>4. CASE Promote \/ Tap \/ Stop \/ StopAndDisown \/ Cancel
      BY <1>2, <3>1, <3>4 DEF Promote, Tap, Stop, StopAndDisown, Cancel, text
    <3> QED
      BY <3>2, <3>3, <3>4 DEF Next
  <2> QED
    BY <1>0, <1>2, <2>1, NothingShown
<1>3. CASE Sound /\ session.open
  <2>1. CASE UNCHANGED <<session, cursor, lost>>
    BY <1>0, <2>1, NothingShown
  <2>2. CASE ReceivePartial /\ ~UNCHANGED <<session, cursor, lost>>
    <3>1. /\ \E given \in Deliveries(Head(channel).text) :
               Show(TypePartialDelta(Now, Head(channel).text, given))
          /\ Pumping /\ Receive
      BY <2>2 DEF ReceivePartial
    <3>2. Head(channel).text \in Text
      BY <3>1, ReceiveType, TypeParts DEF StreamInv, Inv, Events
    <3>3. session'.open
      BY <1>3, <3>1, <3>2, PartialStaysOpen
    <3> QED
      BY <1>0, <1>3, <3>1, <3>2, <3>3, PartialRefines
  <2>3. CASE Promote /\ ~UNCHANGED <<session, cursor, lost>>
    <3>1. /\ \E given \in Deliveries(partial_buffer) :
               Show(TypePartialDelta(Now, partial_buffer, given))
      BY <2>3 DEF Promote
    <3>2. partial_buffer \in Text
      BY DEF StreamInv, Inv, TypeOK
    <3>3. session'.open
      BY <1>3, <3>1, <3>2, PartialStaysOpen
    <3> QED
      BY <1>0, <1>3, <3>1, <3>2, <3>3, PartialRefines
  <2>4. CASE ReceiveFinal
    BY <1>0, <1>3, <2>4, FinalRefines
  <2>5. CASE EndStreaming \/ TapDone \/ StopAndDisown \/ CancelDone
    BY <1>0, <1>3, <2>5, EndRefines
  <2>6. ASSUME Backend \/ ReceiveEnd \/ Tap \/ Stop \/ Cancel \/ UNCHANGED vars
        PROVE  UNCHANGED <<session, cursor, lost>>
    BY <2>6, BackendLeavesTheText DEF ReceiveEnd, Tap, Stop, Cancel, vars, text
  <2> QED
    BY <2>1, <2>2, <2>3, <2>4, <2>5, <2>6 DEF Next, Pump
<1> QED
  BY <1>1, <1>2, <1>3

(* Live typing keeps its promise: no event takes back a letter of what was *)
(* committed, and a stream's text is kept or taken back as a whole.        *)
THEOREM PromiseIsKept == PrivateFinals = FALSE => (Spec => KeepsThePromise)
<1>1. Init => Promise!Init
  BY DEF Init, Promise!Init, NewSession, NoSession
<1>2. StreamInv /\ StreamInv' /\ [Next]_vars => [Promise!Next]_Promise!vars
  BY StepRefines
<1> QED
  BY <1>1, <1>2, StreamInvariant, PTL DEF Spec, KeepsThePromise, Promise!Spec

=============================================================================
