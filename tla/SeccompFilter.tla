---------------------------- MODULE SeccompFilter ----------------------------
(***************************************************************************)
(* compile_seccomp (platform/linux.rs): the classic BPF program that the   *)
(* target installs before its exec, built from the policy's allowlist and  *)
(* its masked, ranged and forbidden argument rules.  BPF compares words of *)
(* half an argument's width, so every rule over a whole argument becomes   *)
(* checks of its low and of its high word, joined by relative jumps.       *)
(*                                                                         *)
(* The program is kept instruction by instruction, because what can go     *)
(* wrong is a jump over one too many of them; a word is WordBits wide.     *)
(***************************************************************************)
EXTENDS Naturals, Sequences, FiniteSets, SequencesExt

CONSTANTS
  Number,      \* [syscall name -> its number]
  WordBits,    \* width of a BPF word: 32 in the code
  BlockLimit,  \* u8::MAX: the farthest relative jump
  BootstrapFd, \* the launcher-held descriptor of the executable
  EmptyPath    \* AT_EMPTY_PATH

Word     == 2 ^ WordBits
Low(x)   == x % Word
High(x)  == x \div Word
Indexes  == 0 .. 5
Syscalls == DOMAIN Number

(* The bits two numbers have in common.                                    *)
x & y ==
  LET common[n \in Nat \X Nat] ==
        IF n[1] = 0 \/ n[2] = 0 THEN 0
        ELSE 2 * common[<<n[1] \div 2, n[2] \div 2>>] + (n[1] % 2) * (n[2] % 2)
  IN  common[<<x, y>>]

(* The syscalls the launcher itself still makes under the filter.          *)
Critical == {"execveat", "exit", "exit_group"}

ASSUME FilterAssumption ==
  /\ WordBits \in Nat \ {0} /\ BlockLimit \in Nat
  /\ BootstrapFd \in 0 .. Word - 1 /\ EmptyPath \in 0 .. Word - 1
  /\ Critical \subseteq Syscalls

(* A rule map is a function from <<syscall, argument index>> to a pair:    *)
(* mask and value, or minimum and maximum.  validate() (policy.rs).        *)
ValidRules(rules, allow) ==
  \A d \in DOMAIN rules : d[1] \in allow \ Critical /\ d[2] \in Indexes

ValidMask(r)  == r[1] # 0 /\ r[2] & r[1] = r[2]
ValidRange(r) == r[1] <= r[2] /\ r # <<0, Word * Word - 1>>

ValidSeccomp(s) ==
  /\ s.allow # {}
  /\ \A rules \in {s.masked, s.range, s.deny} : ValidRules(rules, s.allow)
  /\ \A d \in DOMAIN s.masked : ValidMask(s.masked[d])
  /\ \A d \in DOMAIN s.deny   : ValidMask(s.deny[d])
  /\ \A d \in DOMAIN s.range  : ValidRange(s.range[d])

-----------------------------------------------------------------------------
(* Instructions, and struct seccomp_data.                                  *)

Jump(code, k, jt, jf) == [code |-> code, k |-> k, jt |-> jt, jf |-> jf]
Stmt(code, k)         == Jump(code, k, 0, 0)

Allow == <<Stmt("ret", "allow")>>
Deny  == <<Stmt("ret", "eperm")>>

Argument(i, half) == 16 + 8 * i + (IF half = "high" THEN 4 ELSE 0)

Load(call, offset) ==
  CASE offset = 0 -> call.nr
    [] offset = 4 -> call.arch
    [] OTHER      -> LET arg == call.args[(offset - 16) \div 8]
                     IN  IF offset % 8 = 0 THEN Low(arg) ELSE High(arg)

(* The kernel's interpreter.                                               *)
Verdict(program, call) ==
  LET run[at \in Nat \X Nat] ==
        LET i    == program[at[1]]
            a    == at[2]
            to(x, n) == run[<<at[1] + n + 1, x>>]
            jump(cond) == to(a, IF cond THEN i.jt ELSE i.jf)
        IN  CASE i.code = "ret" -> i.k
              [] i.code = "ld"  -> to(Load(call, i.k), 0)
              [] i.code = "and" -> to(a & i.k, 0)
              [] i.code = "jeq" -> jump(a = i.k)
              [] i.code = "jge" -> jump(a >= i.k)
              [] i.code = "jgt" -> jump(a > i.k)
  IN  run[<<1, 0>>]

-----------------------------------------------------------------------------
(* The checks of one rule.                                                 *)

(* A word and the part of it the mask keeps; a full mask needs no AND.     *)
Masked(i, half, mask) ==
  <<Stmt("ld", Argument(i, half))>>
    \o (IF mask # Word - 1 THEN <<Stmt("and", mask)>> ELSE <<>>)

WordCheck(i, half, mask, value) ==
  IF mask = 0 THEN <<>>
  ELSE Masked(i, half, mask) \o <<Jump("jeq", value, 1, 0)>> \o Deny

ArgumentChecks(i, mask, value) ==
  WordCheck(i, "low", Low(mask), Low(value))
    \o WordCheck(i, "high", High(mask), High(value))

(* Fault: the skip over the second word does not count its AND.            *)
ForbiddenChecksShort(i, mask, value) ==
  LET high == Masked(i, "high", High(mask)) \o <<Jump("jeq", High(value), 0, 1)>> \o Deny
      low  == Masked(i, "low", Low(mask))
  IN  IF Low(mask) = 0 THEN high
      ELSE IF High(mask) = 0 THEN low \o <<Jump("jeq", Low(value), 0, 1)>> \o Deny
      ELSE low \o <<Jump("jeq", Low(value), 0, 3)>> \o high

(* A match of both words is refused; one that differs skips the rest.      *)
ForbiddenChecks(i, mask, value) ==
  LET high == Masked(i, "high", High(mask)) \o <<Jump("jeq", High(value), 0, 1)>> \o Deny
      low  == Masked(i, "low", Low(mask))
  IN  IF Low(mask) = 0 THEN high
      ELSE IF High(mask) = 0 THEN low \o <<Jump("jeq", Low(value), 0, 1)>> \o Deny
      ELSE low \o <<Jump("jeq", Low(value), 0, IF High(mask) = Word - 1 THEN 3 ELSE 4)>>
               \o high

(* The low words decide only where the high words are equal.               *)
RangeChecks(i, minimum, maximum) ==
  << Stmt("ld", Argument(i, "high")),
     Jump("jge", High(minimum), 1, 0), Deny[1],
     Jump("jeq", High(minimum), 0, 3),
     Stmt("ld", Argument(i, "low")),
     Jump("jge", Low(minimum), 1, 0), Deny[1],
     Stmt("ld", Argument(i, "high")),
     Jump("jgt", High(maximum), 0, 1), Deny[1],
     Jump("jeq", High(maximum), 0, 3),
     Stmt("ld", Argument(i, "low")),
     Jump("jgt", Low(maximum), 0, 1), Deny[1] >>

-----------------------------------------------------------------------------
(* The program.                                                            *)

(* The rules of one syscall, each map in the order of argument indexes.    *)
Block(s, name) ==
  LET checks(rules, Check(_, _, _)) ==
        LET at == SetToSortSeq({i \in Indexes : <<name, i>> \in DOMAIN rules}, <)
        IN  FlattenSeq([n \in DOMAIN at |->
              Check(at[n], rules[<<name, at[n]>>][1], rules[<<name, at[n]>>][2])])
  IN  checks(s.masked, ArgumentChecks) \o checks(s.range, RangeChecks)
        \o checks(s.deny, ForbiddenChecks) \o Allow

(* Any mismatch reloads the number and falls through to the policy, which  *)
(* does not allow execveat.                                                *)
BootstrapExecveat ==
  << Jump("jeq", Number["execveat"], 0, 10),
     Stmt("ld", Argument(0, "low")),  Jump("jeq", BootstrapFd, 0, 7),
     Stmt("ld", Argument(0, "high")), Jump("jeq", 0, 0, 5),
     Stmt("ld", Argument(4, "low")),  Jump("jeq", EmptyPath, 0, 3),
     Stmt("ld", Argument(4, "high")), Jump("jeq", 0, 0, 1),
     Allow[1],
     Stmt("ld", 0) >>

Compile(s) ==
  LET order == SetToSortSeq(s.allow, LAMBDA a, b : Number[a] < Number[b])
      entry(name) == <<Jump("jeq", Number[name], 0, Len(Block(s, name)))>> \o Block(s, name)
  IN  << Stmt("ld", 4), Jump("jeq", 1, 1, 0), Stmt("ret", "kill"), Stmt("ld", 0) >>
        \o (IF "execveat" \in s.allow THEN <<>> ELSE BootstrapExecveat)
        \o FlattenSeq([n \in DOMAIN order |-> entry(order[n])])
        \o Deny

(* Fault: exit is taken whether or not the policy allows it.               *)
ErrorExitAlways(s) == "exit"

(* error_exit_syscall: how a failing launch ends under its own filter.     *)
ErrorExit(s) == IF "exit" \in s.allow THEN "exit" ELSE "exit_group"

(* compile_seccomp refuses a policy under which a failed launch could not  *)
(* end, two names of one number, and a block a jump cannot cross.          *)
Compiles(s) ==
  /\ s.allow \cap {"exit", "exit_group"} # {}
  /\ \A a, b \in s.allow : Number[a] = Number[b] => a = b
  /\ \A name \in s.allow : Len(Block(s, name)) <= BlockLimit

-----------------------------------------------------------------------------
(* What the rules say of whole arguments, without words or jumps.          *)

MeetsRules(s, name, args) ==
  /\ \A i \in Indexes : <<name, i>> \in DOMAIN s.masked =>
       args[i] & s.masked[<<name, i>>][1] = s.masked[<<name, i>>][2]
  /\ \A i \in Indexes : <<name, i>> \in DOMAIN s.range =>
       args[i] \in s.range[<<name, i>>][1] .. s.range[<<name, i>>][2]
  /\ \A i \in Indexes : <<name, i>> \in DOMAIN s.deny =>
       args[i] & s.deny[<<name, i>>][1] # s.deny[<<name, i>>][2]

Bootstrap(call) ==
  call.nr = Number["execveat"] /\ call.args[0] = BootstrapFd /\ call.args[4] = EmptyPath

Promised(s, call) ==
  IF call.arch # 1 THEN "kill"
  ELSE IF \/ \E name \in s.allow :
               Number[name] = call.nr /\ MeetsRules(s, name, call.args)
          \/ "execveat" \notin s.allow /\ Bootstrap(call)
       THEN "allow" ELSE "eperm"
==============================================================================
