----------------------------- MODULE MCService ------------------------------
(***************************************************************************)
(* Two requests of one application: one to an endpoint with a dependency   *)
(* and a decorator under global limits, the other a call of startup, a     *)
(* message of a WebSocket or a request with a dependency.                  *)
(***************************************************************************)
EXTENDS Service, TLC

CONSTANTS r1, r2

MCPaths == r1 :> {<<"middleware", "dependency", "decorator">>}
        @@ r2 :> {<<"dependency">>, <<"websocket">>, <<"startup">>}
=============================================================================
