---------------------------- MODULE MCEnvironment ----------------------------
(* Variables with nested calls; LINENO, on two lines; set -a; calls with   *)
(* PATH before them; and commands in directories.                          *)
EXTENDS Environment, TLC

CONSTANT none

MCNames == {"PATH", "PWD", "OLDPWD", "LINENO", "x"}
MCDirs == {"home", "work", "bin"}
MCValues == {"", "1", "2", "9", "lost", ".:bin", "bin:."} \cup MCDirs
MCPlaces == MCDirs \cup {"."}
MCSearchPath == [value \in MCValues |->
  CASE value = ".:bin" -> <<".", "bin">>
    [] value = "bin:." -> <<"bin", ".">>
    [] value \in MCDirs -> <<value>>
    [] OTHER -> <<>>]

Environ4(path, pwd, x) == "PATH" :> path @@ "PWD" :> pwd @@ "OLDPWD" :> none @@ "LINENO" :> none @@ "x" :> x

MCScripts ==
  {[commands |-> {"assign", "getopts", "export", "readonly", "unset", "call", "run"},
    values |-> {<<"x", "1">>, <<"x", "2">>},
    environ |-> {Environ4("bin", none, x) : x \in {none, "1"}},
    lines |-> {"1"}, files |-> {"bin"}],
   [commands |-> {"assign", "export", "readonly", "unset", "call", "run"},
    values |-> {<<"LINENO", "9">>},
    environ |-> {Environ4("bin", none, none)},
    lines |-> {"1", "2"}, files |-> {"bin"}],
   [commands |-> {"assign", "allexport", "unset", "run"},
    values |-> {<<"x", "1">>, <<"PATH", "bin">>},
    environ |-> {Environ4("bin", none, none)},
    lines |-> {"1"}, files |-> {"bin"}],
   [commands |-> {"call", "run"},
    values |-> {<<"PATH", ".:bin">>, <<"PATH", "bin:.">>},
    environ |-> {Environ4(path, none, none) : path \in {".:bin", "bin:."}},
    lines |-> {"1"}, files |-> {"home", "bin"}],
   [commands |-> {"assign", "readonly", "cd", "run"},
    values |-> {<<"PATH", ".:bin">>, <<"PWD", "lost">>, <<"OLDPWD", "home">>},
    environ |-> {Environ4(".:bin", pwd, none) : pwd \in {none, "home"}},
    lines |-> {"1"}, files |-> {"home", "bin"}]}
=============================================================================
