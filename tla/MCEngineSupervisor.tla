-------------------------- MODULE MCEngineSupervisor --------------------------
(* Small instances of EngineSupervisor for TLC: the app's sidecar, which has *)
(* the sealing key, and an MCP server, which has not.                        *)
EXTENDS EngineSupervisor

CONSTANTS sidecar, mcp
=============================================================================
