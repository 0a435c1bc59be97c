------------------------------- MODULE Paging -------------------------------
(***************************************************************************)
(* The loops that read a list page by page, while the server's list        *)
(* changes:                                                                *)
(*   stream  StreamDataWithCursor of pkg/clob (stream.go), a goroutine     *)
(*           that feeds a channel until its context is cancelled           *)
(*   cursor  MarketsAll, OrdersAll, TradesAll, BuilderTradesAll of         *)
(*           pkg/clob, which return all pages or an error                  *)
(*   offset  EventsAll and MarketsAll of pkg/gamma                         *)
(*                                                                         *)
(* A cursor is where the next page starts.  The server (external) ends a   *)
(* list with the end cursor, with none, or with the cursor it was asked    *)
(* for; a server that sends an earlier cursor keeps any of these loops     *)
(* going and is left out, as is a limit of 0 in an offset loop.            *)
(***************************************************************************)
EXTENDS Integers, Sequences, SequencesExt

CONSTANTS
    Initial,        \* the list before any change: a sequence of items
    Extra,          \* items that may be inserted
    Limit,          \* items of a page
    MaxChanges      \* bound: changes of the list

ASSUME PagingAssumption ==
    /\ Initial \in Seq(Range(Initial))
    /\ Limit \in Nat \ {0}
    /\ MaxChanges \in Nat

VARIABLES
    mode,       \* which of the loops
    list,       \* the server's list
    changes,    \* changes of it so far
    removed,    \* whether one of them removed an item
    cursor,     \* where the next page starts; End and Repeat end the loop
    pc,         \* the loop: top, fetch, items or ended
    page,       \* the items fetched and not yet sent (stream)
    results,    \* the items collected, or sent into the channel
    failed,     \* the error returned or sent: none, fetch or cancel
    buffered,   \* what is in the channel, capacity 1
    consumer,   \* whether somebody receives
    cancelled   \* whether the context is cancelled

server == <<list, changes, removed>>
loop == <<mode, cursor, pc, page, results, failed>>
vars == <<server, loop, buffered, consumer, cancelled>>

End == -1
Repeat == -2

Init ==
    /\ mode \in {"stream", "cursor", "offset"}
    /\ list = Initial
    /\ changes = 0
    /\ removed = FALSE
    /\ cursor = 0
    /\ pc = "top"
    /\ page = <<>>
    /\ results = <<>>
    /\ failed = "none"
    /\ buffered = 0
    /\ consumer = TRUE
    /\ cancelled = FALSE

-----------------------------------------------------------------------------
(* The server, between two requests.                                       *)

Change(to) ==
    /\ changes < MaxChanges
    /\ changes' = changes + 1
    /\ list' = to
    /\ UNCHANGED <<loop, buffered, consumer, cancelled>>

ServerInserts ==
    /\ \E i \in 1 .. Len(list) + 1 : \E x \in Extra \ Range(list) : Change(InsertAt(list, i, x))
    /\ UNCHANGED removed

ServerRemoves ==
    /\ \E i \in 1 .. Len(list) : Change(RemoveAt(list, i))
    /\ removed' = TRUE

PageAt(from) == SubSeq(list, from + 1, Min({from + Limit, Len(list)}))

\* What comes with a page: where the next one starts, or that there is none.
CursorAfter(from) ==
    IF from + Limit < Len(list) THEN {from + Limit} ELSE {End, Repeat}

-----------------------------------------------------------------------------
(* The loops.                                                              *)

\* Faulty variant: the error of a later page ends the loop like a last page.
EndsWithPages(with) == pc' = "ended" /\ failed' = IF results = <<>> THEN with ELSE "none"

Ends(with) == pc' = "ended" /\ failed' = with

\* A cursor loop runs until it is told the end; the stream looks at its
\* context first, whose error reaches the consumer or not.
Top ==
    /\ pc = "top"
    /\ \/ cursor \in {End, Repeat} /\ Ends("none") /\ UNCHANGED buffered
       \/ /\ cursor \notin {End, Repeat}
          /\ mode = "stream" /\ cancelled
          /\ \/ buffered = 0 /\ buffered' = 1
             \/ UNCHANGED buffered
          /\ Ends("cancel")
       \/ /\ cursor \notin {End, Repeat}
          /\ ~(mode = "stream" /\ cancelled)
          /\ pc' = "fetch"
          /\ UNCHANGED <<failed, buffered>>
    /\ UNCHANGED <<server, mode, cursor, page, results, consumer, cancelled>>

\* A collector drops what it has when a request fails or its context is
\* cancelled.
FetchFails ==
    /\ pc = "fetch"
    /\ mode # "stream"
    /\ Ends(IF cancelled THEN "cancel" ELSE "fetch")
    /\ results' = <<>>
    /\ UNCHANGED <<server, mode, cursor, page, buffered, consumer, cancelled>>

\* The stream sends the error, or sees the cancellation instead.
StreamFetchFails ==
    /\ pc = "fetch"
    /\ mode = "stream"
    /\ \/ buffered = 0 /\ buffered' = 1 /\ Ends(IF cancelled THEN "cancel" ELSE "fetch")
       \/ cancelled /\ UNCHANGED buffered /\ Ends("cancel")
    /\ UNCHANGED <<server, mode, cursor, page, results, consumer, cancelled>>

\* Faulty variant: a full page ends an offset loop as well.
StopsShort(items) == Len(items) <= Limit

\* An offset loop ends with a page that is not full.
StopsAt(items) == Len(items) < Limit

CollectPage ==
    /\ pc = "fetch"
    /\ mode # "stream"
    /\ results' = results \o PageAt(cursor)
    /\ CASE mode = "cursor" -> cursor' \in CursorAfter(cursor)
         [] mode = "offset" ->
                cursor' = IF StopsAt(PageAt(cursor)) THEN End ELSE cursor + Limit
    /\ pc' = "top"
    /\ UNCHANGED <<server, mode, page, failed, buffered, consumer, cancelled>>

StreamPage ==
    /\ pc = "fetch"
    /\ mode = "stream"
    /\ page' = PageAt(cursor)
    /\ cursor' \in CursorAfter(cursor)
    /\ pc' = "items"
    /\ UNCHANGED <<server, mode, results, failed, buffered, consumer, cancelled>>

\* Faulty variant: nothing but room in the channel ends the wait.
GivesUpNot == FALSE

\* While an item waits for room in the channel.
GivesUp == cancelled

CheckItem ==
    /\ pc = "items"
    /\ \/ /\ page = <<>>
          /\ pc' = "top"
          /\ UNCHANGED <<failed, buffered>>
       \/ /\ page # <<>>
          /\ cancelled
          /\ Ends("cancel")
          /\ (buffered = 0 /\ buffered' = 1) \/ UNCHANGED buffered
       \/ /\ page # <<>>
          /\ ~cancelled
          /\ pc' = "send"
          /\ UNCHANGED <<failed, buffered>>
    /\ UNCHANGED <<server, mode, cursor, page, results, consumer, cancelled>>

SendItem ==
    /\ pc = "send"
    /\ \/ /\ buffered = 0
          /\ buffered' = 1
          /\ results' = Append(results, Head(page))
          /\ page' = Tail(page)
          /\ pc' = "items"
          /\ UNCHANGED failed
       \/ /\ GivesUp
          /\ Ends("cancel")
          /\ UNCHANGED <<page, results, buffered>>
    /\ UNCHANGED <<server, mode, cursor, consumer, cancelled>>

-----------------------------------------------------------------------------
(* The application.                                                        *)

Receive ==
    /\ consumer
    /\ buffered = 1
    /\ buffered' = 0
    /\ UNCHANGED <<server, loop, consumer, cancelled>>

ConsumerLeaves ==
    /\ mode = "stream"
    /\ consumer
    /\ consumer' = FALSE
    /\ UNCHANGED <<server, loop, buffered, cancelled>>

Cancel ==
    /\ ~cancelled
    /\ cancelled' = TRUE
    /\ UNCHANGED <<server, loop, buffered, consumer>>

-----------------------------------------------------------------------------
Turns ==
    \/ Top \/ FetchFails \/ StreamFetchFails \/ CollectPage \/ StreamPage
    \/ CheckItem \/ SendItem

Next ==
    \/ Turns
    \/ ServerInserts \/ ServerRemoves
    \/ Receive \/ ConsumerLeaves \/ Cancel

Fairness == WF_vars(Turns)

Spec == Init /\ [][Next]_vars
FairSpec == Spec /\ Fairness

-----------------------------------------------------------------------------
(* A loop that ends without an error has seen every item that was there    *)
(* from the start, whatever was inserted meanwhile.  (An item that is      *)
(* removed moves the rest of the list under the cursor.)                   *)
NothingSkipped ==
    pc = "ended" /\ failed = "none" /\ ~removed => Range(Initial) \subseteq Range(results)

(* "Made StreamDataWithCursor fully respect context cancellation"          *)
(* (RELEASE_NOTES.md:32): a cancelled loop ends, though nobody receives    *)
(* any more.                                                               *)
CancelEnds == cancelled ~> pc = "ended"
=============================================================================
