---------------------------- MODULE FirewallRules ----------------------------
(***************************************************************************)
(* The rules that a kill switch puts into the host's firewall, command by   *)
(* command: security.KillSwitch (security/killswitch.go), which main uses,  *)
(* and the kill switches of internal/platform, which nothing constructs.    *)
(* Any command can fail and the process can die between two commands; the   *)
(* rules outlive the process, its state does not.  ks.mu makes Enable and   *)
(* Disable exclude each other.  The firewall is external.                   *)
(***************************************************************************)
EXTENDS Integers, Sequences, SequencesExt

CONSTANT MaxCrashes   \* bound: deaths of the process

Switches == {"security", "platform"}
Systems == {"windows", "linux", "darwin"}

(* The rules in the order in which they are added.  On macOS the security   *)
(* switch only turns pf on, which is no rule of its own, and the platform   *)
(* one loads all its rules at once.                                         *)
Rules(i, o) ==
    CASE o = "windows" /\ i = "security" -> <<"lo", "dns", "daemon", "lan", "block">>
      [] o = "windows" /\ i = "platform" -> <<"block", "tunnel", "lan">>
      [] o = "linux" /\ i = "security" ->
            <<"lo", "established", "daemon", "lan192", "lan10", "dns", "block">>
      [] o = "linux" /\ i = "platform" ->
            <<"lo", "lan192", "lan10", "lan172", "tunnel", "block">>
      [] o = "darwin" /\ i = "security" -> <<"pf">>
      [] o = "darwin" /\ i = "platform" -> <<"block">>

Foreign == "foreign"     \* a rule somebody else added; on macOS, with pf on
Policy == "policy"       \* somebody else's policy of dropping the rest

VARIABLES
    impl, os,   \* which kill switch, and runtime.GOOS
    fw,         \* the rules in force
    kstate,     \* ks.state, or k.enabled
    kpc,        \* "off", "idle", "adding", "undoing" or "removing"
    kstep,      \* commands of the loop already run
    stale,      \* own rules that a failed command or a death has left behind
    crashes

fvars == <<impl, os, fw, kstate, kpc, kstep, stale, crashes>>

Mine == Rules(impl, os)
Own == ToSet(Mine)
OnlyPf == impl = "security" /\ os = "darwin"

Init ==
    /\ impl = "security" /\ os = "linux" /\ fw = {} /\ kstate = FALSE /\ kpc = "off"
    /\ kstep = 0 /\ stale = {} /\ crashes = 0

New(i, o, f) ==
    /\ kpc = "off" /\ crashes = 0
    /\ impl' = i /\ os' = o /\ fw' = f /\ kpc' = "idle"
    /\ UNCHANGED <<kstate, kstep, stale, crashes>>

----------------------------------------------------------------------------
(* Enable.  Only the security switch returns early when it is enabled.      *)

Enable ==
    /\ kpc = "idle" /\ (impl = "security" => ~kstate)
    /\ kpc' = "adding" /\ kstep' = 0
    /\ UNCHANGED <<impl, os, fw, kstate, stale, crashes>>

(* pfctl -f, of the platform switch on macOS, replaces what is loaded.       *)
Kept == IF impl = "platform" /\ os = "darwin" THEN {} ELSE fw

AddRule ==
    /\ kpc = "adding" /\ kstep < Len(Mine)
    /\ fw' = Kept \cup {Mine[kstep + 1]} /\ kstep' = kstep + 1
    /\ stale' = stale \ {Mine[kstep + 1]}
    /\ UNCHANGED <<impl, os, kstate, kpc, crashes>>

Added ==
    /\ kpc = "adding" /\ kstep = Len(Mine)
    /\ kstate' = TRUE /\ kpc' = "idle" /\ kstep' = 0
    /\ UNCHANGED <<impl, os, fw, stale, crashes>>

(* Mutation: the security switch keeps the rules it has added, too.         *)
AddFailsKept ==
    /\ kpc = "adding" /\ kstep < Len(Mine)
    /\ kpc' = "idle" /\ kstep' = 0
    /\ UNCHANGED <<impl, os, fw, kstate, stale, crashes>>

(* pfctl -e fails, as it does when pf is already on: only a warning.        *)
PfWarning ==
    /\ OnlyPf /\ kpc = "adding" /\ kstep < Len(Mine)
    /\ kstep' = kstep + 1
    /\ UNCHANGED <<impl, os, fw, kstate, kpc, stale, crashes>>

(* A command fails (of the security switch on macOS: the process is not     *)
(* root).  That switch undoes what it has done, the platform one returns.   *)
AddFails ==
    /\ kpc = "adding" /\ kstep < Len(Mine)
    /\ kpc' = IF impl = "security" /\ ~OnlyPf THEN "undoing" ELSE "idle"
    /\ kstep' = 0
    /\ UNCHANGED <<impl, os, fw, kstate, stale, crashes>>

----------------------------------------------------------------------------
(* Disable, also called to undo.  Windows deletes by name, rule after rule; *)
(* Linux flushes the whole chain, foreign rules included, after which the   *)
(* security switch resets the chain's policy; macOS turns pf off.           *)

Disable ==
    /\ kpc = "idle" /\ (impl = "security" => kstate)
    /\ kpc' = "removing" /\ kstep' = 0
    /\ UNCHANGED <<impl, os, fw, kstate, stale, crashes>>

Commands ==
    IF os = "windows" THEN Len(Mine) ELSE IF os = "linux" /\ impl = "security" THEN 2 ELSE 1

Deleted ==
    CASE os = "windows" -> {Mine[kstep + 1]}
      [] os = "linux" -> IF kstep = 0 THEN fw \ {Policy} ELSE {Policy}
      [] os = "darwin" -> fw

RemoveRules ==
    /\ kpc \in {"undoing", "removing"} /\ kstep < Commands
    /\ fw' = fw \ Deleted /\ stale' = stale \ Deleted /\ kstep' = kstep + 1
    /\ UNCHANGED <<impl, os, kstate, kpc, crashes>>

(* The error is ignored, except that the platform switch on Linux and macOS *)
(* returns it and stays enabled.                                            *)
RemoveFails ==
    /\ kpc \in {"undoing", "removing"} /\ kstep < Commands
    /\ IF impl = "platform" /\ os # "windows"
       THEN kpc' = "idle" /\ kstep' = 0 /\ UNCHANGED stale
       ELSE kstep' = kstep + 1 /\ stale' = stale \cup (fw \cap Own \cap Deleted) /\ UNCHANGED kpc
    /\ UNCHANGED <<impl, os, fw, kstate, crashes>>

Removed ==
    /\ kpc \in {"undoing", "removing"} /\ kstep = Commands
    /\ kstate' = FALSE /\ kpc' = "idle" /\ kstep' = 0
    /\ UNCHANGED <<impl, os, fw, stale, crashes>>

(* The process dies, at any point, and is started again.                    *)
Crash ==
    /\ kpc # "off" /\ crashes < MaxCrashes
    /\ kstate' = FALSE /\ kpc' = "idle" /\ kstep' = 0
    /\ stale' = fw \cap Own /\ crashes' = crashes + 1
    /\ UNCHANGED <<impl, os, fw>>

Next ==
    \/ \E i \in Switches, o \in Systems, f \in SUBSET {Foreign, Policy} : New(i, o, f)
    \/ Enable \/ AddRule \/ Added \/ PfWarning \/ AddFails
    \/ Disable \/ RemoveRules \/ RemoveFails \/ Removed \/ Crash

----------------------------------------------------------------------------
(* A switch that says it is enabled has every rule in force, the one that    *)
(* blocks included: but not the security switch on macOS, which has no rule  *)
(* (see EnabledBlocks).  The security switch, when it says it is not, has    *)
(* left nothing of its own except what it failed to remove or an earlier     *)
(* process left behind: a half-applied set is taken back.                    *)
RulesMatchState ==
    kpc = "idle" =>
        /\ kstate /\ ~OnlyPf => Own \subseteq fw
        /\ impl = "security" /\ ~kstate => fw \cap Own \subseteq stale

(* "Enable activates the kill switch, blocking all non-tunnel traffic"       *)
(* (killswitch.go:38): whichever switch says it is enabled, the rule that    *)
(* blocks is in force.  It does not hold: README section 4.                  *)
EnabledBlocks == kpc = "idle" /\ kstate => "block" \in fw
=============================================================================
