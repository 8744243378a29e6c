--------------------------- MODULE MCNotifications ---------------------------
(***************************************************************************)
(* Days of three hours, of which the last and the first are quiet, and a   *)
(* channel that pushes beside the inbox.                                   *)
(***************************************************************************)
EXTENDS Notifications

CONSTANTS p1, p2

Settings == [lowStock |-> TRUE, lowTime |-> 1, summary |-> FALSE, summaryTime |-> 2, quiet |-> NoQuiet]
Summaries == [Settings EXCEPT !.lowStock = FALSE, !.summary = TRUE, !.quiet = <<2, 1>>]

Alerted == [p \in Products |-> IF p = p1 THEN [id |-> 0, on |-> 0, alone |-> FALSE] ELSE NoRow]
Unalerted == [p \in Products |-> NoRow]

NoNotes == [k \in {} |-> {}]
Scene(hour, lowNow, hasOwner, row, alerts, polled, people) ==
    [now |-> hour, low |-> lowNow, owned |-> hasOwner, settings |-> row, alert |-> alerts,
     scheduled |-> polled, notes |-> NoNotes, deliveries |-> NoNotes, presses |-> people]

\* The second day of a product that stays low; a summary that waits for the morning;
\* a first day that people run by hand; a shop that has lost its owner.
MCScenes ==
    {Scene(3, {p1}, TRUE, Settings, Alerted, TRUE, 1),
     Scene(2, {}, TRUE, Summaries, Unalerted, TRUE, 0),
     Scene(4, {p1}, TRUE, NoRow, Alerted, FALSE, 4),
     Scene(4, {p1}, FALSE, Settings, Unalerted, TRUE, 1)}

MCEdits == {[lowStock |-> FALSE]}
=============================================================================
