--------------------------- MODULE MCCommandLine ---------------------------
(***************************************************************************)
(* The words TLC builds command lines from: every option that parse treats *)
(* in its own way, and values that pass or fail each check.                *)
(***************************************************************************)
EXTENDS CommandLine

CONSTANT MaxArgs   (* the longest command line *)

MCWords ==
  {"--help", "-v", "--no-preload", "--root", "--listen", "--workers",
   "--request-timeout", "-c", "-d",
   "0", "4096", "4097", "86401", "app", "/etc", "\"not UTF-8\"", "unix:/run/s", "unix:s",
   "opcache.enable=0",
   "opcache.enable=1", "OPcache.preload=x"}

MCArguments == UNION {[1..n -> MCWords] : n \in 0..MaxArgs}

MCUtf8 == MCWords \ {"\"not UTF-8\""}

MCAbsolute == {"/etc"}

MCNumber ==
  [w \in MCWords |-> CASE w = "0" -> 0 [] w = "4096" -> 4096 [] w = "4097" -> 4097
                       [] w = "86401" -> 86401 [] OTHER -> -1]

MCEndpoint ==
  [w \in MCWords |-> CASE w = "unix:/run/s" -> "unix" [] w = "unix:s" -> "relative"
                       [] OTHER -> "none"]

MCDefine ==
  [w \in MCWords |-> CASE w \in {"opcache.enable=0", "opcache.enable=1"} -> "setting"
                       [] w = "OPcache.preload=x" -> "reserved"
                       [] OTHER -> "bare"]

MCSetting ==
  [w \in MCWords |->
     [key |-> "opcache.enable", value |-> IF w = "opcache.enable=1" THEN "on" ELSE "off"]]
=============================================================================
