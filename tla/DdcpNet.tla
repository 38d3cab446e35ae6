------------------------------ MODULE DdcpNet -------------------------------
(* Data collection of module Ddcp as one part among others, with names of  *)
(* its own for what other parts have too.                                  *)
CONSTANTS Nodes, LinkList, NextHop, Originators, Changing, InitialL3, MaxQueries,
          MaxDdcpJobs, MaxDdcpChanges,
          NoReply   \* no reply yet, or no interface
VARIABLES ddcp, l3, up, queries, replies, periodic, ddcp_jobs, pkts, draining, calm, ddcp_changes,
          ddcp_crashed

ddcpVars == <<ddcp, l3, up, queries, replies, periodic, ddcp_jobs, pkts, draining, calm,
              ddcp_changes, ddcp_crashed>>

D == INSTANCE Ddcp WITH
  MaxJobs <- MaxDdcpJobs, MaxChanges <- MaxDdcpChanges, NULL <- NoReply,
  jobs <- ddcp_jobs, changes <- ddcp_changes, crashed <- ddcp_crashed

ASSUME NetworkAssumption == D!DdcpAssumption

\* Module Ddcp: an originator gets the present answers of ddcp.c.
Collected == D!Collected
\* Module Ddcp: floods of ddcp.c die out.
FloodsEnd == D!FloodsEnd
=============================================================================
