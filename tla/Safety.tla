------------------------------- MODULE Safety -------------------------------
(***************************************************************************)
(* Commands of a healing plan and internal/safety: what the validator does *)
(* with them.                                                              *)
(*                                                                         *)
(* A text is told apart by what the patterns look for: the kind of command *)
(* it begins with, whether a resource is written "deployment/api" or       *)
(* "deployment api", and whether there is something in it that a pattern   *)
(* rejects wherever it stands.                                             *)
(***************************************************************************)
EXTENDS Integers, Sequences, FiniteSets

Structure == {"operator", "newline", "long"}
Traits == {"plain", "encoded", "forbidden"} \cup Structure

Looks == {"get", "describe", "logs"}
Changes == {"rollout restart", "delete pod", "scale", "rollout undo",
            "patch configmap", "patch deployment"}
HostLooks == {"systemctl status", "df", "du", "journalctl"}
HostChanges == {"systemctl restart", "nginx reload", "kill", "find delete", "rm log"}

(* DefaultWhitelist: the patterns of the changes want a blank between the  *)
(* resource and its name.                                                  *)
Whitelist ==
  {[type |-> "k8s", kinds |-> Looks, blank |-> FALSE],
   [type |-> "k8s", kinds |-> Changes, blank |-> TRUE],
   [type |-> "ssh", kinds |-> HostLooks \cup HostChanges, blank |-> FALSE]}

(* DefaultBlacklist: these kinds always, and "forbidden" texts of any kind *)
(* (a deleted pod with --all, an assigned password, a wildcard).           *)
Blacklist == {"rm -rf", "delete namespace", "kubectl exec", "shutdown"}

(* A command that names no type is compared with the rules of every type.  *)
Matches(rule, c) ==
  /\ c.kind \in rule.kinds
  /\ c.type \in {"", rule.type}
  /\ ~(rule.blank /\ c.slash)

StructureOK(c) == c.trait \notin Structure
Readable(c) == c.trait # "encoded"
Blacklisted(c) == c.trait = "forbidden" \/ c.kind \in Blacklist
Whitelisted(c) == \E rule \in Whitelist : Matches(rule, c)

Allowed_ListedSuffices(c) == StructureOK(c) /\ Readable(c) /\ Whitelisted(c)
Allowed(c) == StructureOK(c) /\ Readable(c) /\ ~Blacklisted(c) /\ Whitelisted(c)
=============================================================================
