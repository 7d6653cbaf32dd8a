------------------------------- MODULE NfArgs -------------------------------
(***************************************************************************)
(* The arguments of an NF (onvm_nflib_init with onvm_config_common.c): the *)
(* command line, or a configuration file (-F) whose values the command     *)
(* line overrides in place, up to the settings of the NF and the arguments *)
(* that are left for it.                                                   *)
(*                                                                         *)
(* An argument is a sequence of letters: a flag is one letter ("-l"), "--" *)
(* is one, a number is its digits.  Arguments are numbered from 0, as in C.*)
(***************************************************************************)
EXTENDS Integers, Sequences, FiniteSets, SequencesExt

CONSTANTS
    CommandLines,   \* the command lines considered
    Configs,        \* the configuration files considered
    Width           \* 2^16, or smaller: the values of uint16_t

VARIABLES
    old,        \* argv of main; a cleared argument is empty
    config,     \* the file: dpdk and onvm settings, Missing where absent
    new,        \* the argument list that EAL and parse_args get
    optind,     \* of getopt
    set,        \* nf_init_cfg
    pc,
    given       \* history: the command line as given

vars == <<old, config, new, optind, set, pc, given>>

Dash    == <<"--">>
Arg(s, i)   == s[i + 1]
Letters     == <<"0", "1", "2", "3", "4", "5", "6", "7", "8", "9">>
Digits(n)   == IF n < 10 THEN <<Letters[n + 1]>>
               ELSE <<Letters[(n \div 10) + 1], Letters[(n % 10) + 1]>>
Number(a)   == FoldLeft(LAMBDA x, d : 10 * x + SelectInSeq(Letters, LAMBDA c : c = d) - 1, 0, a)
IsFlag(a)   == a # <<>> /\ a[1] \in {"-F", "-l", "-n", "-r", "-t", "-m", "-s", "-x", "--"}
Missing     == -1

\* onvm_nflib_init_nf_init_cfg: what the options leave unset.  The service id is
\* an int until the options have been read.
Unset == [n |-> Width - 1, r |-> -1, t |-> 0, l |-> 0, flags |-> {}]

Init ==
    /\ given \in CommandLines /\ old = given
    /\ config \in Configs
    /\ new = given /\ optind = 0 /\ set = Unset /\ pc = "init"

Stop(how) == pc' = how /\ UNCHANGED <<old, config, new, optind, set, given>>

\* onvm_nflib_init without a configuration file.
PlainInit ==
    /\ pc = "init" /\ Arg(old, 1) # <<"-F">>
    /\ pc' = "eal" /\ UNCHANGED <<old, config, new, optind, set, given>>

\* onvm_config_parse_file, and the items of the file that are looked for.
ParseFile ==
    /\ pc = "init" /\ Arg(old, 1) = <<"-F">>
    /\ IF ~config.readable THEN Stop("failed")
       ELSE pc' = "lists" /\ UNCHANGED <<old, config, new, optind, set, given>>

\* onvm_config_create_dpdk_args: a missing core list is dereferenced, the number
\* of memory channels is printed into 3 bytes.
DpdkArgs == <<<<"-l">>, Digits(config.corelist), <<"-n">>,
              Digits(config.memory), <<"--", "secondary">>, Dash>>

\* onvm_config_create_onvm_args.
OnvmArgs == <<<<"-r">>, Digits(config.service)>> \o
            IF config.instance = Missing THEN <<>> ELSE <<<<"-n">>, Digits(config.instance)>>

\* The first half of onvm_config_create_nf_arg_list.
CreateLists ==
    /\ pc = "lists"
    /\ IF config.corelist = Missing THEN Stop("crashed")
       ELSE IF config.memory = Missing \/ config.service = Missing THEN Stop("failed")
       ELSE /\ new' = <<Arg(old, 0)>> \o DpdkArgs \o OnvmArgs
            /\ pc' = "merge" /\ UNCHANGED <<old, config, optind, set, given>>

\* The places after the dashes: those of the given list by their first two
\* characters, those of the new one exactly.  The last one counts.
DashesOld == {i \in 0 .. Len(old) - 1 : Arg(old, i)[1] = "--"}
OnvmOld   == IF DashesOld = {} THEN 0 ELSE Min(DashesOld) + 1
NfOld     == IF Cardinality(DashesOld) < 2 THEN Len(old) ELSE Max(DashesOld) + 1
OnvmNew   == 7

\* rte_memcpy over the value in place: a shorter value leaves the rest.
Overlay(a, b) == b \o SubSeq(a, Len(b) + 1, Len(a))

\* Mutant: the flags are looked for at the places of the values.
SwappedParity(i, j) ==
    IsPrefix(Arg(new, i), Arg(old, j)) /\ (IF i < OnvmNew THEN j % 2 = 0 ELSE j % 2 = 1)

\* A flag of the new list, found again in the given list, at an odd place
\* among the DPDK arguments and at an even one among those of openNetVM.
Overrides(i, j) ==
    IsPrefix(Arg(new, i), Arg(old, j)) /\ (IF i < OnvmNew THEN j % 2 = 1 ELSE j % 2 = 0)

Pairs == {p \in (1 .. OnvmNew - 2) \X (3 .. OnvmOld - 2) : Overrides(p[1], p[2])} \cup
         {p \in (OnvmNew .. Len(new) - 1) \X (OnvmOld .. NfOld - 1) : Overrides(p[1], p[2])}

\* The given arguments that the NF must not see again.
Cleared == [k \in DOMAIN old |-> IF k <= NfOld THEN <<>> ELSE old[k]]

\* The second half of onvm_config_create_nf_arg_list.  A flag at the end of the
\* given list has no value to copy, and a value longer than the one in the file
\* runs into its end mark and beyond.
Merge ==
    /\ pc = "merge"
    /\ IF \E p \in Pairs : p[2] + 1 = Len(old) THEN Stop("crashed")
       ELSE IF \E p \in Pairs : p[1] + 1 = Len(new)
                  \/ Len(Arg(old, p[2] + 1)) > Len(Arg(new, p[1] + 1)) THEN Stop("overrun")
       ELSE /\ new' = [k \in DOMAIN new |->
                         LET from == {p \in Pairs : p[1] + 2 = k} IN
                         IF from = {} THEN new[k]
                         ELSE Overlay(new[k], Arg(old, Max({p[2] : p \in from}) + 1))]
            /\ old' = Cleared
            /\ pc' = "eal" /\ UNCHANGED <<config, optind, set, given>>

\* rte_eal_init: takes everything up to the first dash, whose place becomes the
\* name of the program for the options that follow.
EalInit ==
    /\ pc = "eal"
    /\ LET ds == {i \in 1 .. Len(new) - 1 : Arg(new, i) = Dash} IN
       IF ds = {} THEN optind' = Len(new) ELSE optind' = Min(ds) + 1
    /\ pc' = "parse" /\ UNCHANGED <<old, config, new, set, given>>

\* (uint16_t) strtoul(...)
Value(a) == Number(a) % Width

WithValue == {<<"-n">>, <<"-r">>, <<"-t">>, <<"-l">>}
HasValue == optind + 1 < Len(new) /\ ~IsFlag(Arg(new, optind + 1))

\* The loop of onvm_nflib_parse_args: one option.
ParseOption ==
    /\ pc = "parse" /\ optind < Len(new) /\ Arg(new, optind) # Dash
    /\ LET a == Arg(new, optind) IN
       \/ /\ a \in WithValue /\ HasValue
          /\ LET v == Value(Arg(new, optind + 1)) IN
             IF a \in {<<"-t">>, <<"-l">>} /\ v = 0 THEN Stop("failed")
             ELSE /\ set' = CASE a = <<"-n">> -> [set EXCEPT !.n = v]
                              [] a = <<"-r">> -> [set EXCEPT !.r = IF v = 0 THEN -1 ELSE v]
                              [] OTHER -> [set EXCEPT ![IF a = <<"-t">> THEN "t" ELSE "l"] = v]
                  /\ optind' = optind + 2 /\ UNCHANGED <<old, config, new, pc, given>>
       \/ /\ a \in {<<"-m">>, <<"-s">>}
          /\ set' = [set EXCEPT !.flags = @ \cup {a[1]}]
          /\ optind' = optind + 1 /\ UNCHANGED <<old, config, new, pc, given>>
       \/ /\ IsFlag(a) /\ a \notin {<<"-m">>, <<"-s">>}
          /\ a \in WithValue => ~HasValue
          /\ Stop("failed")
       \/ /\ ~IsFlag(a) /\ optind' = optind + 1
          /\ UNCHANGED <<old, config, new, set, pc, given>>

\* The end of parse_args: the service id is compared with (uint16_t)-1, which
\* the int -1 does not equal, and then stored in 16 bits.
EndOptions ==
    /\ pc = "parse" /\ ~(optind < Len(new) /\ Arg(new, optind) # Dash)
    /\ IF set.r = Width - 1 THEN Stop("failed")
       ELSE /\ pc' = "started" /\ set' = [set EXCEPT !.r = @ % Width]
            /\ UNCHANGED <<old, config, new, optind, given>>

\* The arguments that the NF's own getopt reads: with a file, those of main
\* from the fourth on that have not been cleared.
NfSees ==
    IF Arg(given, 1) = <<"-F">> THEN SelectSeq(SubSeq(old, 5, Len(old)), LAMBDA a : a # <<>>)
    ELSE SubSeq(new, optind + 2, Len(new))

Next == PlainInit \/ ParseFile \/ CreateLists \/ Merge \/ EalInit \/ ParseOption \/ EndOptions

Spec == Init /\ [][Next]_vars

-----------------------------------------------------------------------------
\* What the given list says of a flag in one of its sections.
Section(n) ==
    LET ds == {i \in 1 .. Len(given) : given[i] = Dash}
        cut == IF ds = {} THEN Len(given) + 1 ELSE Min(ds)
        rest == {i \in ds : i > cut}
        cut2 == IF rest = {} THEN Len(given) + 1 ELSE Min(rest)
    IN  CASE n = 1 -> SubSeq(given, IF Arg(given, 1) = <<"-F">> THEN 4 ELSE 2, cut - 1)
          [] n = 2 -> SubSeq(given, cut + 1, cut2 - 1)
          [] OTHER -> SubSeq(given, cut2 + 1, Len(given))

\* Only flags with values, and no long options.
Plain(s) == /\ \A i \in DOMAIN s : IsFlag(s[i]) <=> i % 2 = 1
            /\ \A i \in DOMAIN s : s[i][1] # "--" /\ s[i] \notin {<<"-m">>, <<"-s">>}
            /\ Len(s) % 2 = 0
Says(s, f) == {Number(s[i + 1]) : i \in {k \in 1 .. Len(s) - 1 : s[k] = f}}

\* A command line of plain options overrides the file's service and instance,
\* when its value has as many digits: otherwise the digits that the longer one
\* has too many stay.  (Values are those of the 16 bits, without the reserved ones.)
OverridesApply ==
    pc = "started" /\ Arg(given, 1) = <<"-F">> /\ Plain(Section(1)) /\ Plain(Section(2)) =>
        LET same(f, v) == \A n \in Says(Section(2), f) : /\ Len(Digits(n)) = Len(Digits(v))
                                                        /\ n \in 1 .. Width - 2
            want(f, v) == IF Says(Section(2), f) = {} THEN {v} ELSE Says(Section(2), f)
        IN  /\ same(<<"-r">>, config.service) => set.r \in want(<<"-r">>, config.service)
            /\ config.instance # Missing /\ same(<<"-n">>, config.instance)
                  => set.n \in want(<<"-n">>, config.instance)

\* The NF sees its own arguments, all of them and no others, as long as they
\* hold no long option and, with a file, both dashes are there.
NfArgsOnly ==
    pc = "started" /\ (\A i \in DOMAIN Section(3) : Section(3)[i][1] # "--") /\
    (Arg(given, 1) = <<"-F">> => Cardinality({i \in DOMAIN given : given[i] = Dash}) = 2) =>
        NfSees = Section(3)
=============================================================================
