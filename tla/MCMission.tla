----------------------------- MODULE MCMission -----------------------------
(* Guard and Mission with a few requests, goals and configurations.         *)
EXTENDS Mission

Request(name) == [name |-> name, valid |-> TRUE, path |-> <<>>, command |-> <<>>, url |-> <<>>]
Bash(cmd) == [Request("bash") EXCEPT !.command = cmd]

MCRequests ==
    {Request("ask_user"), Request("probe"), [Request("write_file") EXCEPT !.path = <<"~", "notes">>],
     Bash(<<"docker", "ps">>), Bash(<<"npm", "install", "-f">>), Bash(<<"npm", "install">>),
     Bash(<<"npm", "test">>), Bash(<<"ls", ";", "git", "push">>)}

Ask == [read |-> "allow", write |-> "ask", shell |-> "ask", writeDeny |-> {}, shellDeny |-> {},
        allowSession |-> TRUE, yolo |-> FALSE, reviewer |-> TRUE]
MCConfigs ==
    {Ask,
     [Ask EXCEPT !.read = "deny", !.write = "allow", !.shell = "allow", !.shellDeny = {"docker"}, !.writeDeny = {"home"}],
     [Ask EXCEPT !.yolo = TRUE, !.reviewer = FALSE, !.shell = "deny"]}
MCBounds == {[calls |-> 2, changes |-> 1], [calls |-> 1, changes |-> 2], [calls |-> 0, changes |-> 3]}
MCTierings == {[probe |-> "Sensitive"]}
MCGoals ==
    {<<"no", "docker", "but", "use", "playwright">>, <<"use", "docker", "with", "npm">>}
=============================================================================
