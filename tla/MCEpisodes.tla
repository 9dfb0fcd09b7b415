---------------------------- MODULE MCEpisodes ----------------------------
(* Small instances of Episodes for TLC: each .cfg turns on the kinds of    *)
(* problem it is about and leaves the other sets empty.                    *)
EXTENDS Episodes

CONSTANTS all, pager, mail   \* receivers

(* all: every severity; pager: critical only; mail: warnings only.         *)
MCSeverities == [r \in Receivers |-> CASE r = all   -> {Warning, Critical}
                                       [] r = pager -> {Critical}
                                       [] r = mail  -> {Warning}]

(* Only certificates escalate; the other problems have one severity.       *)
MCGrades == [k \in Key |->
    CASE k[1] = "tls_cert" -> {Warning, Critical}
      [] k[1] = "unhealthy" -> {Warning}
      [] OTHER -> {Critical}]

AllKeys      == Key
AllButDaemon == Key \ {DaemonKey}
MCHostOnly   == HostKey
NoKeys       == {}
=============================================================================
