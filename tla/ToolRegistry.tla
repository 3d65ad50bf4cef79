---------------------------- MODULE ToolRegistry ----------------------------
(***************************************************************************)
(* Which function a tool call reaches: the checks of AgentHarness's        *)
(* constructor (tile/runtime/harness.py), the registry of ToolExecutor     *)
(* (tile/tool_executor.py), the second registry that a typed prompt builds *)
(* with the result tools (tile/runtime/execution.py), and the lookup of    *)
(* the name a model sends.  All of them are functions of the caller's      *)
(* tools; nothing changes once a harness is constructed.                   *)
(*                                                                         *)
(* A name is a base, a spelling in some letter case and, in a call, maybe  *)
(* surrounding blanks; ToolDefinition refuses blanks when it is made.      *)
(***************************************************************************)
EXTENDS Naturals, Sequences

CONSTANTS
  Bases,      \* base names, "complete" and "fail" among them
  Cases       \* letter cases, "lower" among them

ReservedNames == {"complete", "fail"}

ASSUME NamesAssumption == ReservedNames \subseteq Bases /\ "lower" \in Cases

\* cwd: the function has a cwd parameter; schemaCwd: so has its input model;
\* fits: one positional argument can be bound to what is left.
Tools ==
  [base : Bases, case : Cases, cwd : BOOLEAN, schemaCwd : BOOLEAN, fits : BOOLEAN,
   bound : {FALSE}, owner : {"caller"}]
ResultTool(name) ==
  [base |-> name, case |-> "lower", cwd |-> FALSE, schemaCwd |-> FALSE, fits |-> TRUE,
   bound |-> FALSE, owner |-> "harness"]
ResultTools == <<ResultTool("complete"), ResultTool("fail")>>
Requests == [base : Bases, case : Cases, padded : BOOLEAN]

\* str.lower(), and strip() for a request.
Lower(name) == [base |-> name.base, case |-> "lower"]

-----------------------------------------------------------------------------
\* Mutant: reserved names are compared as they are spelled.
IsReservedAsSpelled(tool) == tool.base \in ReservedNames /\ tool.case = "lower"

\* _reject_reserved_tool_names
IsReserved(tool) == Lower(tool).base \in ReservedNames

\* _reject_cwd_schema_property, for the tools that _bind_cwd binds.
Bindable(tool) == ~(tool.cwd /\ tool.schemaCwd)

\* _bind_cwd_tools
Bind(tools) == [i \in DOMAIN tools |-> [tools[i] EXCEPT !.bound = tools[i].cwd]]

\* _require_unique_name over all tools
UniqueNames(tools) ==
  \A i, j \in DOMAIN tools : i # j => Lower(tools[i]) # Lower(tools[j])

\* ToolExecutor.__init__ does not raise.
Registers(tools) == UniqueNames(tools) /\ \A i \in DOMAIN tools : tools[i].fits

\* AgentHarness(tools=...) does not raise.
Accepts(tools) ==
  /\ \A i \in DOMAIN tools : ~IsReserved(tools[i]) /\ Bindable(tools[i])
  /\ Registers(Bind(tools))

\* The tools of a run: a typed prompt adds the result tools.
RunTools(tools, typed) == IF typed THEN Bind(tools) \o ResultTools ELSE Bind(tools)

\* _get_tool: the first tool of that name, or none.
Find(tools, name) ==
  LET places == {i \in DOMAIN tools : Lower(tools[i]) = Lower(name)}
  IN  IF places = {} THEN <<>>
      ELSE <<tools[CHOOSE i \in places : \A j \in places : i <= j]>>

-----------------------------------------------------------------------------
\* The checks of the constructor are enough for every later prompt: building
\* the executor of a typed run never raises inside the run.
AcceptedHarnessRunsTyped(tools) ==
  Accepts(tools) => Registers(RunTools(tools, TRUE))

\* No tool shadows another: every name a model was offered reaches the tool it
\* was offered with, respelled or not.  In a typed run a call to complete or
\* fail reaches the harness's own tool, in a plain run it reaches nothing.
CallsReachTheirTool(tools) ==
  Accepts(tools) =>
    \A typed \in BOOLEAN, name \in Requests :
      LET offered == RunTools(tools, typed)
          found == Find(offered, name)
      IN  /\ \A i \in DOMAIN offered :
               Lower(offered[i]) = Lower(name) => Head(found) = offered[i]
          /\ name.base \in ReservedNames =>
               found = IF typed THEN <<ResultTool(name.base)>> ELSE <<>>
=============================================================================
