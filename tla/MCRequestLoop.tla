----------------------------- MODULE MCRequestLoop -----------------------------
(* RequestLoop on a small instance: calls that differ in what they carry, and *)
(* calls that differ in what the policies make of them.                       *)
EXTENDS RequestLoop

CarryingCalls ==
  [config : [stream : {TRUE}, follow : {TRUE}, retry : {TRUE}, networkErrors : {TRUE},
             cookies : {TRUE}, ssrf : {FALSE}, useProxy : {TRUE},
             proxy : {"direct"}, auth : {"none", "basic", "hook"}],
   method : {"POST"}, body : {"replayable"}, names : SUBSET CallerNames]

PolicyCalls ==
  [config : [stream : BOOLEAN, follow : BOOLEAN, retry : BOOLEAN, networkErrors : BOOLEAN,
             cookies : BOOLEAN, ssrf : BOOLEAN, useProxy : BOOLEAN,
             proxy : {"direct", "explicit", "environment"}, auth : {"none"}],
   method : {"GET", "POST", "QUERY", "PUT"}, body : {"empty", "replayable", "nonReplayable"},
   names : {{}}]

SmallCalls == CarryingCalls \cup PolicyCalls
================================================================================
