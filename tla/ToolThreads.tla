---------------------------- MODULE ToolThreads -----------------------------
(***************************************************************************)
(* torbrowser_mcp/server.py runs every tool call in a thread of its own    *)
(* (asyncio.to_thread): calls in flight interleave.                        *)
(***************************************************************************)

CONSTANT Threads    \* the threads that tool calls run in

ASSUME ThreadsAssumption == Threads # {}
=============================================================================
