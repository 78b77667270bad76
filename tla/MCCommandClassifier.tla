------------------------ MODULE MCCommandClassifier ------------------------
(* One run of every way the rules judge a tool, joined to three partners.  *)
EXTENDS CommandClassifier

R(tools, forms) == {Tool(t, f) : t \in tools, f \in forms}
MCRuns == R({"hostname", "awk", "kubectl", "docker", "systemctl"}, {"query", "change", "other", "masked"})
     \cup R({"redis"}, {"query", "wipe"})
     \cup R({"cat", "find", "crontab", "nginx", "tar", "mount", "wget", "rm", "frob", "python", "mkfs", "reboot"},
            {"query", "change", "other"})
     \cup R({"mysql"}, {{}, {"select"}, {"select", "drop"}, {"outfile"}, {"open", "select"}})
     \cup R({"hdbsql"}, {{"select"}, {"file", "select"}, {"call"}})
MCPartners == {Tool("cat", "query"), Tool("frob", "query"), Tool("rm", "change")}
=============================================================================
