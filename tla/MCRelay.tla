------------------------------ MODULE MCRelay -------------------------------
(* An instance of Relay for TLC: alice draws, bob watches on the same note,    *)
(* dora is on another note.  Cells are two units wide.                        *)
EXTENDS Relay, TLC

CONSTANTS alice, bob, dora, ra, rb, n1, n2, p1, p2

NoteOf == (alice :> n1) @@ (bob :> n1) @@ (dora :> n2)
ReaderOf == (ra :> alice) @@ (rb :> bob)

Looking(page, x, mute) ==
    [page |-> page, x |-> x, y |-> 0, width |-> 1, height |-> 1, mute |-> mute]
Views == {Looking(p1, 0 - 3, {}), Looking(p1, 4, {"ink"})}

Somewhere == [page |-> p1, hasPoint |-> TRUE, x |-> 5, y |-> 0]
Nowhere == [page |-> Nothing, hasPoint |-> FALSE, x |-> 0, y |-> 0]
OtherPage == [page |-> p2, hasPoint |-> FALSE, x |-> 0, y |-> 0]

Says(event, at) == [event |-> event, at |-> at, target |-> Nothing, view |-> Nothing]
Reports(view) == [Says("interest.update", Nowhere) EXCEPT !.view = view]
Offers(target) == [Says("rtc.offer", Nowhere) EXCEPT !.target = target]

\* What alice draws and negotiates, and what bob reports and comments.
MessagesOfA ==
    {Says("cursor.moved", Somewhere), Says("ink.started", OtherPage),
     Says("ink.points", Nowhere), Says("block.transform.commit", Somewhere),
     Says("block.lock.granted", Nowhere), Says("server.draining", Nowhere),
     Says("presence.", Nowhere), Offers(alice), Offers(bob), Offers(dora)}
MessagesOfB ==
    {Reports(v) : v \in Views \cup {Nothing}} \cup {Says("ink.commit", Nowhere)}
Sent == (ra :> MessagesOfA) @@ (rb :> MessagesOfB)
=============================================================================
