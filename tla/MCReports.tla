----------------------------- MODULE MCReports -----------------------------
(* Two processes and a handful of commands over two files. *)
EXTENDS Reports

CONSTANTS sh1, sh2
OneShell == {sh1}
TwoShells == {sh1, sh2}
MCFileNames == {"base.json", "report.json"}
TwoProcesses == {1, 2}
MCPaths == {"app.exe", "App.exe", "lib.exe"}
MCLower == [p \in MCPaths \cup {""} |-> IF p = "App.exe" THEN "app.exe" ELSE p]
TwoPathOf == <<"app.exe", "lib.exe">>
MCSeverityOf == [rwx |-> "medium", pe |-> "high"]
OneSeverityOf == [rwx |-> "medium"]

Command(op, pid, out) ==
  [op |-> op, pid |-> pid, process |-> "", ignore_proc |-> {}, baseline |-> "",
   out |-> out, fail |-> "medium", old |-> "base.json", new |-> "report.json"]

\* Baselines, by path and by pid, and what is scanned with them.
BaselineCommands ==
  {[Command("create", 0, "base.json") EXCEPT !.process = "app.exe"],
   Command("create", 2, "base.json"),
   [Command("apply", 0, "") EXCEPT !.baseline = "base.json"],
   [Command("scan", 0, "report.json") EXCEPT !.baseline = "base.json"]}

\* Other options of scan, and a create that names no process.
OtherCommands ==
  {Command("create", 0, "base.json"),
   [Command("scan", 0, "report.json") EXCEPT !.ignore_proc = {"lib.exe"}, !.fail = "high"],
   [Command("scan", 1, "") EXCEPT !.fail = "some"]}

SharedCommands == BaselineCommands \cup OtherCommands
SequenceCommands ==
  BaselineCommands \cup {Command("save", 0, "base.json"), Command("diff", 0, "")}
=============================================================================
