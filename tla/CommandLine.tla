----------------------------- MODULE CommandLine -----------------------------
(***************************************************************************)
(* vmm_config_default() and vmm_config_parse_args() of src/main.c.         *)
(*                                                                         *)
(* An argument is an option with its value, parsed already where it has a  *)
(* syntax; Malformed stands for one that is missing or cannot be parsed.   *)
(* Strings are their lengths in bytes, files whether they can be read,     *)
(* addresses and sizes are in sectors of 512 bytes as in KernelLoad.       *)
(* Options that only ask for output (-v, -q, --dump, --walk, --trace-pio)  *)
(* are left out, but for their syntax errors: that of "unknown".           *)
(***************************************************************************)
EXTENDS Naturals, Sequences

CONSTANTS
  MaxVcpus,         (* VMM_MAX_VCPUS                                       *)
  CmdlineMax,       (* ZP_CMDLINE_MAX, in bytes                            *)
  DefaultRam,       (* VMM_DEFAULT_RAM_SIZE                                *)
  DefaultCmdline,   (* the length of DEFAULT_LINUX_CMDLINE                 *)
  DefaultMap,       (* BOOT_IDENTITY_MAP_SIZE                              *)
  LongPayload,      (* PAYLOAD_LONG_GPA                                    *)
  Unset,            (* UINT64_MAX                                          *)
  None,             (* a string option that was not given                  *)
  Malformed         (* a value that is missing or cannot be parsed         *)

(* A vCPU's number is its APIC id, which is a byte in both tables.         *)
ASSUME MaxVcpusAssumption == MaxVcpus \in 1 .. 255

VARIABLES
  argv,             (* the arguments                                       *)
  arg,              (* the number of the next one                          *)
  cfg,              (* struct vmm_config, with the file-scope g_gran,      *)
                    (* g_map_size and g_append                             *)
  parsing           (* "args", "ok", "failed", or "help"                   *)

cmdline_vars == <<argv, arg, cfg, parsing>>

Mode == {"real16", "long64", "linux"}

(* vmm_config_default() and the initializers of the file-scope variables.  *)
Default ==
  [mode |-> "real16", mem |-> DefaultRam, smp |-> 1, initrd |-> None,
   cmdline |-> None, append |-> None, load |-> Unset, entry |-> Unset,
   gran |-> "2m", map |-> DefaultMap, payload |-> None]

Option == DOMAIN Default

CmdlineTypeOK ==
  /\ arg \in 1 .. Len(argv) + 1
  /\ DOMAIN cfg = Option
  /\ cfg.mode \in Mode /\ cfg.smp \in 1 .. MaxVcpus /\ cfg.gran \in {"2m", "4k"}
  /\ parsing \in {"args", "ok", "failed", "help"}

CmdlineInit == arg = 1 /\ cfg = Default /\ parsing = "args"

-----------------------------------------------------------------------------

(* What the code refuses as soon as it reads it.                           *)
Refused(a) ==
  \/ a.opt \notin Option \cup {"help"}
  \/ a.opt \in Option /\ a.val = Malformed
  \/ a.opt = "smp" /\ a.val \notin 1 .. MaxVcpus
  \/ a.opt = "mode" /\ a.val \notin Mode
  \/ a.opt = "gran" /\ a.val \notin {"2m", "4k"}

(* Mutant: --mode fills in the default address of its payload.             *)
SetEagerly(a) ==
  cfg' = IF a.opt = "mode" /\ cfg.load = Unset
         THEN [cfg EXCEPT !.mode = a.val,
                          !.load = IF a.val = "long64" THEN LongPayload ELSE 0]
         ELSE [cfg EXCEPT ![a.opt] = a.val]

Set(a) == cfg' = [cfg EXCEPT ![a.opt] = a.val]

(* One turn of the loop.                                                   *)
ParseArg ==
  /\ parsing = "args" /\ arg <= Len(argv)
  /\ LET a == argv[arg] IN
     \/ Refused(a) /\ parsing' = "failed" /\ UNCHANGED <<arg, cfg>>
     \/ a.opt = "help" /\ parsing' = "help" /\ UNCHANGED <<arg, cfg>>
     \/ /\ ~Refused(a) /\ a.opt # "help"
        /\ Set(a)
        /\ arg' = arg + 1
        /\ UNCHANGED parsing
  /\ UNCHANGED argv

(* "cmdline append"; --cmdline replaces the default.                       *)
CmdlineLen(c) ==
  (IF c.cmdline = None THEN DefaultCmdline ELSE c.cmdline)
  + (IF c.append = None THEN 0 ELSE 1 + c.append)

(* The checks after the loop.  A file is None, or whether it is readable.  *)
Consistent(c) ==
  /\ c.payload # None
  /\ IF c.mode = "linux"
     THEN c.initrd = TRUE /\ c.payload = TRUE /\ CmdlineLen(c) < CmdlineMax
     ELSE /\ c.initrd = None /\ c.cmdline = None /\ c.append = None
          /\ c.smp = 1

PayloadGpa(mode) == IF mode = "long64" THEN LongPayload ELSE 0

(* The configuration the rest of the program sees.                         *)
Completed(c) ==
  LET load == IF c.load = Unset THEN PayloadGpa(c.mode) ELSE c.load
  IN [opt \in DOMAIN c |->
        CASE opt = "cmdline" -> IF c.mode = "linux" THEN CmdlineLen(c) ELSE None
          [] opt = "load"    -> load
          [] opt = "entry"   -> IF c.entry = Unset THEN load ELSE c.entry
          [] OTHER           -> c[opt]]

FinishArgs ==
  /\ parsing = "args" /\ arg > Len(argv)
  /\ IF Consistent(cfg)
     THEN parsing' = "ok" /\ cfg' = Completed(cfg)
     ELSE parsing' = "failed" /\ UNCHANGED cfg
  /\ UNCHANGED <<argv, arg>>

CmdlineNext == ParseArg \/ FinishArgs

-----------------------------------------------------------------------------

(* The value an option has in the command line as a whole: its last one.   *)
Written(opt) ==
  LET At == {k \in 1 .. Len(argv) : argv[k].opt = opt} IN
  IF At = {} THEN Default[opt]
  ELSE argv[CHOOSE k \in At : \A j \in At : j <= k].val

(* main.c:179-346: the order of different options does not matter, and of  *)
(* an option given twice the last counts; defaults that depend on another  *)
(* option (the addresses on --mode, the entry on --load, the command line  *)
(* on --append) are those of the whole command line.                       *)
OptionOrderFree ==
  parsing = "ok" => cfg = Completed([opt \in Option |-> Written(opt)])
=============================================================================
