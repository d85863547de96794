-------------------------- MODULE CanonicalEvents --------------------------
(***************************************************************************)
(* The events an adapter yields and an encoder takes                       *)
(* (packages/canonical/src/types.ts), and the table both of them keep of   *)
(* the blocks these events are about.  A text, a thought and a tool call   *)
(* start and grow alike, so each of these steps has one event; the end of  *)
(* a call (tool_call.completed) is told from that of any other block       *)
(* (content.completed).                                                    *)
(***************************************************************************)
EXTENDS Integers

Started    == [type |-> "response.started"]
Opened(i, kind) == [type |-> "opened", index |-> i, kind |-> kind]
Delta(i, part)  == [type |-> "delta", index |-> i, part |-> part]
Closed(i, kind) == [type |-> "completed", index |-> i,
                    of |-> IF kind = "tool_call" THEN "tool_call" ELSE "content"]
Usage      == [type |-> "usage.updated"]
Completed(reason) == [type |-> "response.completed", reason |-> reason]
Failed     == [type |-> "response.failed"]

\* Map.set: the entry at a place is new or replaced.
With(blocks, at, block) ==
  [place \in DOMAIN blocks \cup {at} |-> IF place = at THEN block ELSE blocks[place]]
=============================================================================
