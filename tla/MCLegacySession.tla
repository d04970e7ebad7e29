-------------------------- MODULE MCLegacySession --------------------------
(* Instances of LegacySession for TLC.                                     *)
EXTENDS LegacySession

\* The allowed directory c:\a, in capitals and with a trailing separator;
\* c:\a\b in it is blocked.
OneAllowed == {<<"C", ":", "/", "A", "/">>}
OneBlocked == {<<"c", ":", "\\", "a", "\\", "b">>}
OneProcess == {[stem |-> "lsass", exe |-> TRUE]}

\* A file in it, one beside it, one in the blocked directory, and a name with
\* a variable, which is judged as the first and acted on as the second.
OneFileEach ==
    ("" :> <<>>)
    @@ ("inside" :> <<"c", ":", "\\", "a", "\\", "x">>)
    @@ ("neighbour" :> <<"c", ":", "\\", "a", "b">>)
    @@ ("blocked" :> <<"C", ":", "\\", "A", "\\", "B", "\\", "x">>)
    @@ ("variable" :> <<"c", ":", "\\", "a", "b">>)

OneVariable ==
    [n \in DOMAIN OneFileEach |-> IF n = "variable" THEN "inside" ELSE n]

Lower == [c \in {"a", "b", "c", "x", ":", "\\", "/", "A", "B", "C"} |->
             CASE c = "A" -> "a" [] c = "B" -> "b" [] c = "C" -> "c"
               [] OTHER -> c]

Word(w) == [tool |-> w]
On(tool, name) == [tool |-> tool, path |-> name]
Kills(s) == [tool |-> "kill_process",
             proc |-> [critical |-> FALSE,
                       names |-> {[stem |-> s, exe |-> FALSE]}]]

AllInputs ==
    {Word("yes"), Word("blank"),
     On("read_file", "inside"), On("read_file", "variable"),
     On("read_file", "blocked"),
     On("delete_file", "neighbour"),
     [tool |-> "copy_file", src |-> "inside", dst |-> "neighbour"],
     Kills("lsass"), Word("lua_exec"), Word("reload_lua_tools")}

AllCalls ==
    {On("write_file", "neighbour"), On("read_file", "blocked"),
     [tool |-> "run_command", cmd |-> "format"],
     On("load_script", "inside")}

OneHotkey == {[mods |-> {"CTRL", "ALT"}, key |-> "X"]}
=============================================================================
