---------------------------- MODULE CaptureView ----------------------------
(***************************************************************************)
(* The terminal view of captured packets (pktscope/tui, storage/ring.rs):  *)
(* a ring of the last packets, a display filter kept as indices into that  *)
(* ring, a selection kept as an index into what the filter lets through,   *)
(* bookmarks kept as packet numbers, and the keys.                         *)
(*                                                                         *)
(* One thread runs a loop: draw a frame, handle at most one key, then,     *)
(* unless paused, take every packet that waits in the channel.  The decode *)
(* thread fills that channel at any time.  Status messages, scrolling      *)
(* inside a panel and the throughput rings are left out.                   *)
(***************************************************************************)
EXTENDS Integers, Sequences, SequencesExt, FiniteSets, FiniteSetsExt

CONSTANTS
  Kinds,         \* what a packet may be, as far as filters tell
  Conversation(_), \* the TCP conversation a kind belongs to, or None
  Filters,       \* the display filters
  Matches(_, _), \* eval_filter: does a filter let a kind through
  Parse(_),      \* the filter a text stands for, saved names resolved, or None
  Overlays,      \* the overlays of statistics
  Patterns,      \* what can be searched for: each a set of kinds
  Chars,         \* the characters that are typed
  Width(_),      \* the bytes of a character in UTF-8
  RingCap,       \* buffer_size
  Page,          \* rows that PageUp and PageDown move by (20)
  Near,          \* rows from the end that count as near it (5)
  None,          \* an absent value
  MaxPackets,    \* bound: packets captured
  MaxInput       \* bound: characters of the filter input

ASSUME ViewAssumption ==
  /\ RingCap \in Nat \ {0} /\ Page \in Nat /\ Near \in Nat
  /\ MaxPackets \in Nat /\ MaxInput \in Nat
  /\ None \notin Kinds \cup Filters \cup Overlays \cup {"stream"}
  /\ "stream" \notin Overlays
  /\ None \notin [number : Nat, kind : Kinds] /\ None \notin Seq(Nat)
  /\ \A c \in Chars : Width(c) \in Nat \ {0}
  /\ \A n \in 0..MaxInput : \A text \in [1..n -> Chars] :
       Parse(text) \in Filters \cup {None}

VARIABLES
  chan,      \* packets that the decode thread has sent
  ring,      \* PacketRing: [number, kind] of each packet, oldest first
  filtered,  \* filtered_indices, from 1, or None
  active,    \* active_filter, or None
  selected,  \* index of the selected row, from 0
  paused,
  mode,      \* InputMode
  input,     \* filter_input
  cursor,    \* filter_cursor
  overlay,   \* the overlay shown, or None
  stream,    \* the packets of the stream that is followed, or None
  search,    \* search_re, or None
  bookmarks, \* numbers of the marked packets
  received,  \* total_received
  fresh,     \* new_count of this drain
  turn,      \* the next step of the loop: "key", "drain", "quit" or "panic"
  sent       \* packets sent so far

vars == <<chan, ring, filtered, active, selected, paused, mode, input, cursor,
          overlay, stream, search, bookmarks, received, fresh, turn, sent>>

packets == <<chan, ring, received, fresh, sent>>
filter  == <<filtered, active>>
bar     == <<mode, input, cursor>>
panels  == <<overlay, stream>>

Init ==
  /\ chan = << >> /\ ring = << >> /\ received = 0 /\ fresh = 0 /\ sent = 0
  /\ filtered = None /\ active = None
  /\ selected = 0
  /\ paused = FALSE
  /\ mode = "normal" /\ input = << >> /\ cursor = 0
  /\ overlay = None /\ stream = None
  /\ search = None
  /\ bookmarks = {}
  /\ turn = "key"

-----------------------------------------------------------------------------
\* Going through a sequence and keeping the elements at some positions, in order.
Ascending(P) ==
  CHOOSE q \in [1..Cardinality(P) -> P] : \A i, j \in DOMAIN q : i < j => q[i] < q[j]
Picked(s, P) == LET at == Ascending(P) IN [i \in DOMAIN at |-> s[at[i]]]

\* The rows: visible_count, visible_packet and selected_packet.
Visible ==
  IF filtered = None THEN ring
  ELSE [i \in DOMAIN filtered |->
          IF filtered[i] \in DOMAIN ring THEN ring[filtered[i]] ELSE None]

Count == Len(Visible)

Selected == IF selected < Count THEN Visible[selected + 1] ELSE None

\* A subtraction that stops at zero.
Less(a, b) == IF a > b THEN a - b ELSE 0

\* A byte offset of the filter input that lies between two characters.
BytesTo(i)     == UNION {{j} \X (1..Width(input[j])) : j \in 1..i}
Offset(i)      == Cardinality(BytesTo(i))
OnBoundary(b)  == \E i \in 0..Len(input) : Offset(i) = b
CharAt(b)      == CHOOSE i \in 0..Len(input) : Offset(i) = b

\* Drawing the filter bar inserts a mark at the cursor, which panics inside a
\* character.
BarPanics ==
  mode = "filter" /\ cursor <= Offset(Len(input)) /\ ~OnBoundary(cursor)

-----------------------------------------------------------------------------
\* The decode thread sends a packet.
Arrive(kind) ==
  /\ sent < MaxPackets
  /\ chan' = Append(chan, [number |-> sent, kind |-> kind])
  /\ sent' = sent + 1
  /\ UNCHANGED <<ring, filter, selected, paused, bar, panels, search, bookmarks,
                 received, fresh, turn>>

\* A frame is drawn and a key, or no key within 33 ms, is read.
Frame == turn = "key" /\ ~BarPanics
Read(m) == Frame /\ mode = m /\ turn' = "drain" /\ UNCHANGED packets

NoKey ==
  /\ Frame
  /\ turn' = "drain"
  /\ UNCHANGED <<packets, filter, selected, paused, bar, panels, search, bookmarks>>

DrawPanics ==
  /\ turn = "key" /\ BarPanics
  /\ turn' = "panic"
  /\ UNCHANGED <<packets, filter, selected, paused, bar, panels, search, bookmarks>>

\* q, or Ctrl-C in any mode.
Quit ==
  /\ Frame
  /\ turn' = "quit"
  /\ UNCHANGED <<packets, filter, selected, paused, bar, panels, search, bookmarks>>

\* Ctrl-F in any mode.
StartSearch ==
  /\ Frame
  /\ turn' = "drain"
  /\ mode' = "search"
  /\ UNCHANGED <<packets, filter, selected, paused, input, cursor, panels,
                 search, bookmarks>>

\* Keys that move the selection: j, k, G, g, PageDown, PageUp.  With an overlay
\* open j and k scroll that instead.
Moved ==
  {IF overlay = None /\ selected + 1 < Count THEN selected + 1 ELSE selected,
   IF overlay = None THEN Less(selected, 1) ELSE selected,
   IF Count > 0 THEN Count - 1 ELSE selected,
   0,
   Min({selected + Page, Less(Count, 1)}),
   Less(selected, Page)}
Move ==
  /\ Read("normal")
  /\ selected' \in Moved
  /\ UNCHANGED <<filter, paused, bar, panels, search, bookmarks>>

\* t, P, F, T or ' toggles its overlay; Esc closes any.
Toggle(kind) ==
  /\ Read("normal")
  /\ overlay' = IF overlay = kind THEN None ELSE kind
  /\ UNCHANGED <<filter, selected, paused, bar, stream, search, bookmarks>>

Close ==
  /\ Read("normal")
  /\ overlay' = None
  /\ stream' = None
  /\ UNCHANGED <<filter, selected, paused, bar, search, bookmarks>>

\* f: open_stream and build_stream, over the whole ring, filtered or not.
Talk(p) == Conversation(p.kind)
Follow ==
  /\ Read("normal")
  /\ IF Selected # None /\ Talk(Selected) # None
     THEN /\ stream' = Picked(ring, {i \in DOMAIN ring : Talk(ring[i]) = Talk(Selected)})
          /\ overlay' = "stream"
     ELSE UNCHANGED panels
  /\ UNCHANGED <<filter, selected, paused, bar, search, bookmarks>>

\* m: toggle_bookmark.
Bookmark ==
  /\ Read("normal")
  /\ bookmarks' = IF Selected = None THEN bookmarks
                  ELSE (bookmarks \ {Selected.number})
                       \cup ({Selected.number} \ bookmarks)
  /\ UNCHANGED <<filter, selected, paused, bar, panels, search>>

\* Space.
Pause ==
  /\ Read("normal")
  /\ paused' = ~paused
  /\ UNCHANGED <<filter, selected, bar, panels, search, bookmarks>>

\* n: next_search_match, from the row after the selected one, round the end.
Hit(i, p) == Visible[i + 1] # None /\ Visible[i + 1].kind \in p
Found_StopsAtEnd(p) ==
  LET hits == {off \in 1..Count : selected + off < Count /\ Hit(selected + off, p)}
  IN IF hits = {} THEN selected ELSE selected + Min(hits)
Found(p) ==
  LET hits == {off \in 1..Count : Hit((selected + off) % Count, p)}
  IN IF hits = {} THEN selected ELSE (selected + Min(hits)) % Count
NextMatch ==
  /\ Read("normal")
  /\ selected' = IF search = None THEN selected ELSE Found(search)
  /\ UNCHANGED <<filter, paused, bar, panels, search, bookmarks>>

-----------------------------------------------------------------------------
\* The filter bar: /, characters, Backspace, Left, Right, Esc and Enter.
StartFilter ==
  /\ Read("normal")
  /\ mode' = "filter" /\ input' = << >> /\ cursor' = 0
  /\ UNCHANGED <<filter, selected, paused, panels, search, bookmarks>>

\* String::insert at a byte offset that is not between characters panics.
Type(c) ==
  /\ Frame /\ mode = "filter"
  /\ Len(input) < MaxInput
  /\ IF OnBoundary(cursor)
     THEN /\ input' = InsertAt(input, CharAt(cursor) + 1, c)
          /\ cursor' = cursor + 1
          /\ turn' = "drain"
     ELSE turn' = "panic" /\ UNCHANGED <<input, cursor>>
  /\ UNCHANGED <<packets, mode, filter, selected, paused, panels, search, bookmarks>>

\* String::remove panics there too, and at the end.
Backspace ==
  /\ Frame /\ mode = "filter"
  /\ cursor > 0
  /\ IF OnBoundary(cursor - 1) /\ cursor - 1 < Offset(Len(input))
     THEN /\ input' = RemoveAt(input, CharAt(cursor - 1) + 1)
          /\ cursor' = cursor - 1
          /\ turn' = "drain"
     ELSE turn' = "panic" /\ UNCHANGED <<input, cursor>>
  /\ UNCHANGED <<packets, mode, filter, selected, paused, panels, search, bookmarks>>

Steps_Unbounded ==
  {c \in {cursor - 1, cursor + 1} : 0 <= c /\ c <= MaxInput + 1}
Steps ==
  {c \in {cursor - 1, cursor + 1} : 0 <= c /\ c <= Offset(Len(input))}
Shift ==
  /\ Read("filter")
  /\ cursor' \in Steps
  /\ UNCHANGED <<filter, selected, paused, mode, input, panels, search, bookmarks>>

Leave ==
  /\ Read("filter")
  /\ mode' = "normal"
  /\ UNCHANGED <<filter, selected, paused, input, cursor, panels, search, bookmarks>>

\* rebuild_filter_indices.
Indices(f) == Ascending({i \in DOMAIN ring : Matches(f, ring[i].kind)})

\* Enter on an empty input.
Clear ==
  /\ Read("filter")
  /\ input = << >>
  /\ active' = None /\ filtered' = None
  /\ selected' = 0
  /\ mode' = "normal"
  /\ UNCHANGED <<paused, input, cursor, panels, search, bookmarks>>

\* Enter on a filter, or on text that is none: the old filter stays.
Apply_KeepsRow ==
  /\ Read("filter")
  /\ input # << >>
  /\ mode' = "normal"
  /\ IF Parse(input) # None
     THEN active' = Parse(input) /\ filtered' = Indices(Parse(input))
     ELSE UNCHANGED filter
  /\ UNCHANGED <<selected, paused, input, cursor, panels, search, bookmarks>>
Apply ==
  /\ Read("filter")
  /\ input # << >>
  /\ mode' = "normal"
  /\ IF Parse(input) # None
     THEN /\ active' = Parse(input)
          /\ filtered' = Indices(Parse(input))
          /\ selected' = 0
     ELSE UNCHANGED <<filter, selected>>
  /\ UNCHANGED <<paused, input, cursor, panels, search, bookmarks>>

-----------------------------------------------------------------------------
\* The search prompt: Enter on a regular expression, which is searched for at
\* once; Enter on none; Esc.
Search(p) ==
  /\ Read("search")
  /\ search' = p
  /\ selected' = Found(p)
  /\ mode' = "normal"
  /\ UNCHANGED <<filter, paused, input, cursor, panels, bookmarks>>

EndSearch ==
  /\ Read("search")
  /\ search' \in {search, None}
  /\ mode' = "normal"
  /\ UNCHANGED <<filter, selected, paused, input, cursor, panels, bookmarks>>

-----------------------------------------------------------------------------
\* drain_packets, one packet: PacketRing::push, the indices after an eviction,
\* and the index of the new packet.
Evicts == Len(ring) >= RingCap
Pushed(p) == Append(IF Evicts THEN Tail(ring) ELSE ring, p)
Shifted_KeepsFirst ==
  IF Evicts THEN [i \in DOMAIN filtered |-> Max({1, filtered[i] - 1})] ELSE filtered
Shifted ==
  IF Evicts
  THEN LET kept == Picked(filtered, {i \in DOMAIN filtered : filtered[i] # 1})
       IN [i \in DOMAIN kept |-> kept[i] - 1]
  ELSE filtered
Passes(p) == active # None => Matches(active, p.kind)

Take ==
  /\ turn = "drain" /\ ~paused
  /\ chan # << >>
  /\ LET p == Head(chan)
     IN /\ ring' = Pushed(p)
        /\ filtered' = IF filtered = None THEN None
                       ELSE Shifted \o (IF Passes(p) THEN <<Len(ring')>> ELSE << >>)
        /\ fresh' = IF Passes(p) THEN fresh + 1 ELSE fresh
  /\ chan' = Tail(chan)
  /\ received' = received + 1
  /\ UNCHANGED <<active, selected, paused, bar, panels, search, bookmarks, turn, sent>>

\* The channel is empty, or the view paused: the selection follows the end when
\* it was near it.
Scrolled_BackToo ==
  IF fresh > 0 /\ Count > 0 THEN Less(Count, fresh + Near) ELSE selected
Scrolled ==
  IF fresh > 0 /\ Count > 0 /\ selected >= Less(Count, fresh + Near)
  THEN Count - 1 ELSE selected
Drained ==
  /\ turn = "drain"
  /\ paused \/ chan = << >>
  /\ selected' = Scrolled
  /\ fresh' = 0
  /\ turn' = "key"
  /\ UNCHANGED <<chan, ring, filter, paused, bar, panels, search, bookmarks,
                 received, sent>>

-----------------------------------------------------------------------------
Ended == turn \in {"quit", "panic"} /\ UNCHANGED vars

Next ==
  \/ \E k \in Kinds : Arrive(k)
  \/ NoKey \/ DrawPanics \/ Quit \/ StartSearch
  \/ \E kind \in Overlays : Toggle(kind)
  \/ Move \/ Close \/ Follow \/ Bookmark \/ Pause \/ NextMatch
  \/ StartFilter \/ Backspace \/ Shift \/ Leave \/ Clear \/ Apply
  \/ \E c \in Chars : Type(c)
  \/ \E p \in Patterns : Search(p)
  \/ EndSearch
  \/ Take \/ Drained
  \/ Ended

Spec == Init /\ [][Next]_vars

-----------------------------------------------------------------------------
Numbers == 0..(MaxPackets - 1)
Packets == [number : Numbers, kind : Kinds]

\* Every variable has its type; no more packets are kept than fit.
TypeOK ==
  /\ chan \in Seq(Packets) /\ ring \in Seq(Packets) /\ Len(ring) <= RingCap
  /\ filtered = None \/ filtered \in Seq(1..RingCap)
  /\ active \in Filters \cup {None}
  /\ selected \in Nat /\ cursor \in Nat /\ received \in Nat /\ fresh \in Nat
  /\ paused \in BOOLEAN
  /\ mode \in {"normal", "filter", "search"}
  /\ input \in Seq(Chars) /\ Len(input) <= MaxInput
  /\ overlay \in Overlays \cup {"stream", None}
  /\ overlay = "stream" => stream \in Seq(Packets)
  /\ search \in Patterns \cup {None}
  /\ bookmarks \subseteq Numbers
  /\ turn \in {"key", "drain", "quit", "panic"}

\* The list shows exactly the packets among the last RingCap received that pass
\* the active filter, oldest first, whatever was evicted since the filter was
\* applied (drain_packets, tui/mod.rs:491-519).
ListIsExact ==
  /\ (filtered = None) <=> (active = None)
  /\ [i \in DOMAIN ring |-> ring[i].number]
       = [i \in 1..Min({received, RingCap}) |-> received - Min({received, RingCap}) + i - 1]
  /\ Visible = Picked(ring, {i \in DOMAIN ring : Passes(ring[i])})

\* The list is exact while the ring stays within its capacity and the state of
\* the view within its types (PacketRing::push, storage/ring.rs:18-26).
ListOK == TypeOK /\ ListIsExact

\* The selection is on a row.  Evictions from a filtered list are the only way
\* for it to lie behind the last one: they shorten the list and leave the
\* selection alone (tui/mod.rs:497-507).
SelectionOnARow ==
  Selected = None => Count = 0 \/ (filtered # None /\ received > RingCap)

\* Packets that come in may push the selection to later packets, when the one
\* it was on is evicted or when it follows the end, and never to an earlier one
\* (tui/mod.rs:522-528).
NeverBackwards ==
  [][turn = "drain" /\ Selected # None /\ Selected' # None
       => Selected'.number >= Selected.number]_vars

\* Looking for a pattern finds it, on whatever side of the selection and however
\* far behind the last row that lies (next_search_match, tui/mod.rs:131-148).
SearchFinds ==
  \A p \in Patterns : (\E i \in 1..Count : Hit(i - 1, p)) => Hit(Found(p), p)

\* Only a character of several bytes in the filter input brings the view down
\* (handle_key_event, tui/mod.rs:436-450; render_filter_bar, filter_bar.rs:11).
OnlyWideCharsCrash ==
  turn = "panic" => \E i \in DOMAIN input : Width(input[i]) > 1
=============================================================================
