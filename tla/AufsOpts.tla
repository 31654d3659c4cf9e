------------------------------ MODULE AufsOpts ------------------------------
(***************************************************************************)
(* Mounting and remounting with options                                    *)
(* (recipes-kernel/linux/linux-imx-3.10.17/aufs: opts.c, aufs_fill_super   *)
(* and aufs_remount_fs of super.c, au_wh_init of whout.c, au_xino_set of   *)
(* xino.c, the branch operations of branch.c as the options call them).    *)
(*                                                                         *)
(* The option string is parsed without a lock into a page of entries that  *)
(* hold references; then, under the superblock lock, a mount runs over the *)
(* entries three times (simple options, branches, xino) and a remount once *)
(* and stops at the first error, but goes on to verify the branches and to *)
(* refresh.  Every step may fail and leaves what the earlier ones did.     *)
(***************************************************************************)
EXTENDS Integers, Sequences, SequencesExt, FiniteSetsExt

CONSTANTS
  Dir,         \* directories that may be branches
  Outside,     \* a directory that is none, for the xino file
  None,
  MountStrs,   \* option strings of mounts
  RemountStrs, \* option strings of remounts
  MaxOpt,      \* entries of the page
  MaxCalls,    \* bound on mounts and remounts
  MaxOdd       \* bound on failures the environment causes

ASSUME BoundAssumption == MaxOpt \in Nat \ {0} /\ MaxCalls \in Nat /\ MaxOdd \in Nat
ASSUME DirAssumption == Outside \notin Dir /\ None \notin Dir \cup {Outside}

VARIABLES
  mnt,    \* mounted
  si,     \* the superblock: branches, mount flags, xino files, fhsm
  call,   \* the mount or remount under way, or the last one
  gen,    \* si_generation
  cache,  \* a cached dentry: the generation and the branches of its look-up
  held,   \* references that the parser of this call has taken and nobody has put back
  calls,  \* mounts and remounts so far
  odd,    \* failures so far
  excused \* what is known to go wrong has happened: a set

vars == <<mnt, si, call, gen, cache, held, calls, odd, excused>>

(* An option: its type, directory, permission ("" if none is given, "rwf"  *)
(* is rw+fhsm) and index.                                                  *)
O(t, d, p) == [t |-> t, d |-> d, p |-> p, n |-> 0]
Tail1 == O("tail", None, "")

Writable(p)    == p \in {"rw", "rwf", "nolwh"}
WhLinkable(p)  == p # "nolwh"
Whable(p)      == Writable(p)
Dirs(s)        == {s.brs[i].d : i \in DOMAIN s.brs}
FindDbindex(s, d) == CHOOSE i \in DOMAIN s.brs : s.brs[i].d = d
View(s)        == [i \in DOMAIN s.brs |-> <<s.brs[i].d, Whable(s.brs[i].perm)>>]

NewSi == [brs |-> <<>>, xino |-> TRUE, plink |-> TRUE, udba |-> "reval", xib |-> None,
          xigen |-> None, brid |-> None, fhsm |-> FALSE, bottom |-> -1]
NoCall == [pc |-> "idle", kind |-> "none", raw |-> <<>>, bindex |-> 0, opts |-> <<>>, i |-> 1, ok |-> TRUE, fl |-> {},
           tmp |-> [xino |-> TRUE, udba |-> "reval"], verified |-> TRUE]

Init ==
  /\ mnt = FALSE /\ si = NewSi /\ call = NoCall /\ gen = 0
  /\ cache = None /\ held = 0 /\ calls = 0 /\ odd = 0 /\ excused = {}

-----------------------------------------------------------------------------
(* Parsing.                                                                *)

(* The options as match_token sorts them: a branch option names a          *)
(* directory, and xino a file.                                             *)
BrTypes == {"add", "append", "prepend", "del", "mod"}
OtherTypes == {"noxino", "plink", "noplink", "udba", "wbr_create", "trunc_xib", "trunc_path"}
Word == {"", "rw", "rwf", "nolwh", "ro", "reval", "none", "notify"} \* permissions and values of udba
Named(types) ==
  {o \in [t : types, d : Dir \cup {Outside, None}, p : Word, n : Nat] :
     (o.t \in BrTypes \cup {"br"} => o.d \in Dir) /\ (o.t = "xino" => o.d # None)}
RawOption == Named(BrTypes \cup OtherTypes \cup {"br", "xino", "fhsm_ignored", "ignore", "unknown"})
ASSUME StrAssumption == MountStrs \cup RemountStrs \subseteq Seq(RawOption)

(* opt_add: without a permission the first branch is writable.  An append  *)
(* counts as index 1, a prepend as index 0.                                *)
OptAdd(o, t, n) ==
  [o EXCEPT !.t = t, !.n = n, !.p = IF @ # "" THEN @ ELSE IF n = 0 THEN "rw" ELSE "ro"]

(* The entries that an option makes.  A branch of br= has the next index;  *)
(* the index of trunc_path is looked up while parsing.                     *)
ParseOne(o, bindex) ==
  CASE o.t = "br"      -> <<OptAdd(o, "add", bindex)>>
    [] o.t = "add"     -> <<OptAdd(o, "add", o.n)>>
    [] o.t = "append"  -> <<OptAdd(o, "append", 1)>>
    [] o.t = "prepend" -> <<OptAdd(o, "prepend", 0)>>
    [] o.t = "trunc_path" -> <<[o EXCEPT !.n = FindDbindex(si, o.d)]>>
    [] o.t = "fhsm_ignored" -> <<Tail1>>
    [] o.t = "ignore"  -> <<>>
    [] OTHER           -> <<o>>

(* add:<index> moves the index that the next br= counts from.              *)
NextIndex(o, bindex) ==
  IF o.t = "br" THEN bindex + 1 ELSE IF o.t = "add" THEN o.n ELSE bindex

(* What the parser refuses by itself.                                      *)
BadOption(o) == o.t = "unknown" \/ (o.t = "trunc_path" /\ o.d \notin Dirs(si))

(* The parsers of branches, del, mod and xino come back with a reference   *)
(* to a path, a dentry or a file, or with an error and without one.        *)
TakesRef(o) == o.t \in {"br", "add", "append", "prepend", "del", "mod", "xino"}


UpToTail(opts) ==
  LET tails == {i \in DOMAIN opts : opts[i] = Tail1}
  IN IF tails = {} THEN opts ELSE SubSeq(opts, 1, Min(tails) - 1)

Refs(opts, types) == Cardinality({i \in DOMAIN opts : opts[i].t \in types})

(* Mutant: the entries of mod options are forgotten.                       *)
OptsFreeNoMod(opts) == Refs(UpToTail(opts), {"add", "append", "prepend", "del", "xino"})

(* au_opts_free puts back one reference of each entry before the tail that *)
(* has one of these types.                                                 *)
OptsFree(opts) == Refs(UpToTail(opts), {"add", "append", "prepend", "del", "mod", "xino"})

Start(kind, str) ==
  /\ call.pc = "idle" /\ calls < MaxCalls /\ calls' = calls + 1
  /\ mnt = (kind = "remount")
  /\ call' = [NoCall EXCEPT !.pc = "parse", !.kind = kind, !.raw = str]
  /\ held' = 0 /\ excused' = excused \ {"force", "refs"}
  /\ UNCHANGED <<mnt, si, gen, cache, odd>>

(* au_opts_parse, option by option.                                        *)
Full == call.opts \o ParseOne(call.raw[call.i], call.bindex)

Parse ==
  /\ call.pc = "parse" /\ call.i <= Len(call.raw)
  /\ LET o == call.raw[call.i] IN
     /\ ~BadOption(o) /\ Len(Full) < MaxOpt
     /\ call' = [call EXCEPT !.i = @ + 1, !.opts = Full, !.bindex = NextIndex(o, @)]
     /\ held' = held + IF TakesRef(o) THEN 1 ELSE 0
     /\ excused' = excused \cup IF o.t = "fhsm_ignored" THEN {"refs", "force"} ELSE {}
  /\ UNCHANGED <<mnt, si, gen, cache, calls, odd>>

(* It fails, by itself or because a path is not found: the entries so far  *)
(* are freed.                                                              *)
ParseFails ==
  /\ call.pc = "parse" /\ call.i <= Len(call.raw)
  /\ \/ BadOption(call.raw[call.i]) /\ UNCHANGED odd
     \/ TakesRef(call.raw[call.i]) /\ odd < MaxOdd /\ odd' = odd + 1
  /\ call' = [NoCall EXCEPT !.ok = FALSE]
  /\ held' = held - OptsFree(call.opts)
  /\ UNCHANGED <<mnt, si, gen, cache, calls, excused>>

(* The page is full: the last entry is overwritten with the tail before    *)
(* the entries are freed.  After br= it is not, and au_opts_free runs on   *)
(* behind the page.                                                        *)
PageFull ==
  /\ call.pc = "parse" /\ call.i <= Len(call.raw)
  /\ LET o == call.raw[call.i] IN
     /\ ~BadOption(o) /\ Len(Full) = MaxOpt
     /\ held' = (held + IF TakesRef(o) THEN 1 ELSE 0)
                - OptsFree(IF o.t = "br" THEN Full ELSE call.opts)
     /\ excused' = excused \cup IF TakesRef(o) THEN {"refs"} ELSE {}
  /\ call' = [NoCall EXCEPT !.ok = FALSE]
  /\ UNCHANGED <<mnt, si, gen, cache, calls, odd>>

Goto(pc) == call' = [call EXCEPT !.pc = pc, !.i = 1]

ParseEnd ==
  /\ call.pc = "parse" /\ call.i > Len(call.raw)
  /\ Goto("parsed")
  /\ UNCHANGED <<mnt, si, gen, cache, held, calls, odd, excused>>

-----------------------------------------------------------------------------
(* Executing an option: the set of its results.                            *)
Res(s, ok, fl) == [si |-> s, ok |-> ok, fl |-> fl, odd |-> FALSE, ex |-> {}]
Odd(s, ex)     == [si |-> s, ok |-> FALSE, fl |-> {}, odd |-> TRUE, ex |-> ex]

PlinkDir(s) == IF s.plink THEN {"plink"} ELSE {}

(* au_wh_init: the whiteout base, the plink directory and the directory of *)
(* orphans that a branch has afterwards.                                   *)
FullBases(s, p) ==
  IF ~Writable(p) THEN {}
  ELSE PlinkDir(s) \cup {"orph"} \cup IF WhLinkable(p) THEN {"base"} ELSE {}

WhInit(s, bases, p) ==
  {[bases |-> FullBases(s, p), ok |-> TRUE], [bases |-> bases, ok |-> FALSE]}
    \cup IF Writable(p) THEN {[bases |-> b, ok |-> FALSE] : b \in {{}, FullBases(s, p) \ {"orph"}}} ELSE {}

(* The directory of orphans is missing while the rest fits: verifying does *)
(* not notice it.                                                          *)
NoOrph(r) == IF ~r.ok /\ "orph" \notin r.bases THEN {"orph"} ELSE {}

(* au_br_add at index n *)
BrAdd(s, o, n, remount) ==
  IF o.d \in Dirs(s) THEN {Res(s, remount, IF remount THEN {"REFRESH"} ELSE {})}
  ELSE IF n > Len(s.brs) THEN {Res(s, FALSE, {})}
  ELSE {Odd(s, {}),
        Res([s EXCEPT !.brs = InsertAt(@, n + 1, [d |-> o.d, perm |-> o.p, wbr |-> Writable(o.p),
                                                  bases |-> FullBases(s, o.p), xf |-> s.xino]),
                      !.brid = IF @ = None /\ Writable(o.p) /\ s.xino /\ s.xib = o.d THEN o.d ELSE @],
            TRUE, {"REFRESH"})}

SetBranch(s, i, p, w, b) ==
  [s EXCEPT !.brs[i] = [@ EXCEPT !.perm = p, !.wbr = w, !.bases = b]]

(* Mutant: si_xino_brid is left alone.                                     *)
BrDelBrid(s, d, remount) ==
  IF d \notin Dirs(s) \/ Len(s.brs) = 1
  THEN {Res(s, remount /\ d \notin Dirs(s), {"TRUNC_XIB", "REFRESH"})}
  ELSE {Res([s EXCEPT !.brs = RemoveAt(@, FindDbindex(s, d))], TRUE, {"TRUNC_XIB", "REFRESH"})}

(* au_br_del; a busy branch has lost its bases already, and gets them back. *)
BrDel(s, d, remount) ==
  IF d \notin Dirs(s) THEN {Res(s, remount, IF remount THEN {"TRUNC_XIB", "REFRESH"} ELSE {})}
  ELSE IF Len(s.brs) = 1 THEN {Res(s, FALSE, {})}
  ELSE LET i == FindDbindex(s, d)
           b == s.brs[i]
       IN {Res([s EXCEPT !.brs = RemoveAt(@, i), !.brid = IF @ = d THEN None ELSE @],
               TRUE, {"TRUNC_XIB", "REFRESH"})}
          \cup IF b.bases = {} THEN {Odd(s, {})}
               ELSE {Odd(SetBranch(s, i, b.perm, b.wbr, r.bases), NoOrph(r)) : r \in WhInit(s, {}, b.perm)}

(* Mutant: only a branch that stops to be writable needs a refresh.        *)
NeedSigenIncOne(old, new) == Whable(old) /\ ~Whable(new)

NeedSigenInc(old, new) == Whable(old) # Whable(new)

(* do_refresh is not initialised by the caller: it may be set anyway.      *)
ModDone(s, i, new) ==
  {Res(new, TRUE, fl) : fl \in IF NeedSigenInc(s.brs[i].perm, new.brs[i].perm) THEN {{"REFRESH"}}
                               ELSE {{}, {"REFRESH"}}}

(* au_br_mod *)
BrMod(s, o, remount) ==
  IF o.d \notin Dirs(s) /\ ~remount THEN {Res(s, FALSE, {})}
  ELSE IF o.d \notin Dirs(s) \/ s.brs[FindDbindex(s, o.d)].perm = o.p
  THEN {Res(s, TRUE, fl) : fl \in {{}, {"REFRESH"}}}
  ELSE LET i   == FindDbindex(s, o.d)
           old == s.brs[i].perm
       IN {Odd(s, {})} \cup ModDone(s, i, SetBranch(s, i, o.p, Writable(o.p), FullBases(s, o.p)))
          \cup (IF ~Writable(old) THEN {}
                ELSE {Odd(SetBranch(s, i, old, TRUE, r.bases), NoOrph(r)) :
                        r \in {q \in WhInit(s, s.brs[i].bases, o.p) : ~q.ok}})
          \cup (IF ~Writable(old) \/ Writable(o.p) THEN {}
                ELSE (* files on the branch cannot be made read-only: rw again *)
                     {Odd(SetBranch(s, i, o.p, FALSE, {}), {"nested"})} \cup
                     {Odd(SetBranch(s, i, IF r.ok THEN old ELSE o.p, TRUE, r.bases),
                          IF r.ok THEN {} ELSE {"nested", "orph"}) : r \in WhInit(s, {}, old)})

Tables(brs, open) == [i \in DOMAIN brs |-> [brs[i] EXCEPT !.xf = open]]

(* Mutant: the flag stays.                                                 *)
XinoClrFlag(s) ==
  [s EXCEPT !.xib = None, !.xigen = None, !.brid = None, !.brs = Tables(@, FALSE)]

(* au_xino_clr *)
XinoClr(s) ==
  [s EXCEPT !.xino = FALSE, !.xib = None, !.xigen = None, !.brid = None,
            !.brs = Tables(@, FALSE)]

(* au_xino_set: the flag first, then bitmap, generations, branches; a      *)
(* failure is reported and nothing is taken back.  The bitmap itself fails *)
(* before the old one is closed or after that.  At a remount the path in   *)
(* use is passed over.                                                     *)
XinoSet(s, d, remount) ==
  LET on == [s EXCEPT !.xino = TRUE]
  IN IF remount /\ s.xib = d THEN {Res(s, TRUE, {})}
     ELSE {Odd(on, {"torn"}), Odd([on EXCEPT !.xib = None], {"torn"}), Odd([on EXCEPT !.xib = d], {"torn"}),
           Odd([on EXCEPT !.xib = d, !.xigen = d], {"torn"}),
           Res([on EXCEPT !.xib = d, !.xigen = d, !.brs = Tables(@, TRUE)], TRUE, {})}

(* After these options of a remount the xino files have to be whole again, *)
(* whatever failed before: noxino, and a path that is not passed over.     *)
Mends(o, r) == mnt /\ r.ok /\ (o.t = "noxino" \/ (o.t = "xino" /\ si.xib # o.d))

OptXino(s, o, remount) ==
  IF o.t = "noxino" THEN {Res(XinoClr(s), TRUE, {})}
  ELSE {IF r.ok THEN Res([r.si EXCEPT !.brid = IF o.d \in Dirs(s) THEN o.d ELSE None], TRUE, {}) ELSE r :
          r \in XinoSet(s, o.d, remount)}

OptBr(s, o, remount) ==
  CASE o.t = "add"     -> BrAdd(s, o, o.n, remount)
    [] o.t = "append"  -> BrAdd(s, o, Len(s.brs), remount)
    [] o.t = "prepend" -> BrAdd(s, o, 0, remount)
    [] o.t = "del"     -> BrDel(s, o.d, remount)
    [] o.t = "mod"     -> BrMod(s, o, remount)

(* The policy of wbr_create may fail to end; it is replaced all the same.  *)
OptSimple(s, o) ==
  CASE o.t = "plink"   -> {Res([s EXCEPT !.plink = TRUE], TRUE, {})}
    [] o.t = "noplink" -> {Res([s EXCEPT !.plink = FALSE], TRUE, {})}
    [] o.t = "udba"    -> {Res([s EXCEPT !.udba = o.p], TRUE, {"UDBA"})}
    [] o.t = "wbr_create" -> {Res(s, TRUE, {}), Odd(s, {})}
    [] o.t = "trunc_xib"  -> {Res(s, TRUE, {"TRUNC_XIB"})}
    [] o.t = "trunc_path" -> {Res(s, o.n \in DOMAIN s.brs /\ s.brs[o.n].xf, {}), Odd(s, {})}

Class(o) ==
  CASE o.t \in BrTypes -> "br"
    [] o.t \in {"xino", "noxino"} -> "xino"
    [] OTHER -> "simple"

Results(o, remount) ==
  CASE Class(o) = "br"   -> OptBr(si, o, remount)
    [] Class(o) = "xino" -> OptXino(si, o, remount)
    [] OTHER             -> OptSimple(si, o)

-----------------------------------------------------------------------------
(* The call under the lock.                                                *)
Lock ==
  /\ call.pc = "parsed"
  /\ Goto(IF call.kind = "mount" THEN "simple" ELSE IF call.raw = <<>> THEN "verify" ELSE "all")
  /\ UNCHANGED <<mnt, si, gen, cache, held, calls, odd, excused>>

(* si_write_lock refuses a remount during plink maintenance, and then      *)
(* au_opts_free is not called.                                             *)
LockRefused ==
  /\ call.pc = "parsed" /\ call.kind = "remount" /\ odd < MaxOdd /\ odd' = odd + 1
  /\ call' = [NoCall EXCEPT !.ok = FALSE]
  /\ excused' = excused \cup {"refs"}
  /\ UNCHANGED <<mnt, si, gen, cache, held, calls>>

Live == UpToTail(call.opts)

(* The next option of this pass.                                           *)
Exec ==
  /\ call.pc \in {"simple", "br", "xino", "all"} /\ call.ok /\ call.i <= Len(Live)
  /\ LET o == Live[call.i] IN
     IF call.pc \notin {"all", Class(o)}
     THEN call' = [call EXCEPT !.i = @ + 1] /\ UNCHANGED <<si, odd, excused>>
     ELSE \E r \in Results(o, call.kind = "remount") :
            /\ r.odd => odd < MaxOdd
            /\ odd' = odd + IF r.odd THEN 1 ELSE 0
            /\ si' = r.si
            /\ excused' = (excused \cup r.ex) \ IF Mends(o, r) THEN {"torn"} ELSE {}
            /\ call' = [call EXCEPT !.i = @ + 1, !.ok = r.ok, !.fl = @ \cup r.fl]
  /\ UNCHANGED <<mnt, gen, cache, held, calls>>

PassOver(pc) == call.pc = pc /\ call.ok /\ call.i > Len(Live)

(* au_opts_mount: xino and udba are off while the branches are added.      *)
ToBranches ==
  /\ PassOver("simple")
  /\ si' = [si EXCEPT !.xino = FALSE, !.udba = "reval"]
  /\ call' = [call EXCEPT !.pc = "br", !.i = 1, !.tmp = [xino |-> si.xino, udba |-> si.udba]]
  /\ UNCHANGED <<mnt, gen, cache, held, calls, odd, excused>>

ToXino ==
  /\ PassOver("br") /\ si.brs # <<>>
  /\ si' = [si EXCEPT !.xino = call.tmp.xino]
  /\ Goto("xino")
  /\ UNCHANGED <<mnt, gen, cache, held, calls, odd, excused>>

(* au_opts_remount verifies after an error, too.                           *)
ToVerify ==
  /\ PassOver("xino") \/ PassOver("all") \/ (call.pc = "all" /\ ~call.ok)
  /\ Goto("verify")
  /\ UNCHANGED <<mnt, si, gen, cache, held, calls, odd, excused>>

(* Mutant: the plink directory of a branch without linked whiteouts is     *)
(* not compared with the option.                                           *)
VerifySkipNolwh(s, b) ==
  IF ~Writable(b.perm) THEN ~b.wbr \/ b.bases = {}
  ELSE IF ~WhLinkable(b.perm) THEN ~b.wbr \/ "base" \notin b.bases
  ELSE b.wbr /\ "base" \in b.bases /\ (s.plink <=> "plink" \in b.bases)

(* A branch is passed over when its bases fit.                             *)
VerifySkip(s, b) ==
  IF ~Writable(b.perm) THEN ~b.wbr \/ b.bases = {}
  ELSE IF ~WhLinkable(b.perm)
  THEN (~b.wbr \/ "base" \notin b.bases) /\ (b.wbr => (s.plink <=> "plink" \in b.bases))
  ELSE b.wbr /\ "base" \in b.bases /\ (s.plink <=> "plink" \in b.bases)

(* au_opts_verify: branch by branch, until one fails.                      *)
Verify ==
  /\ call.pc = "verify" /\ call.verified /\ call.i <= Len(si.brs)
  /\ LET b == si.brs[call.i] IN
     IF VerifySkip(si, b)
     THEN call' = [call EXCEPT !.i = @ + 1] /\ UNCHANGED <<si, odd, excused>>
     ELSE \E r \in WhInit(si, b.bases, b.perm) :
            /\ r.ok \/ odd < MaxOdd
            /\ odd' = odd + IF r.ok THEN 0 ELSE 1
            /\ si' = SetBranch(si, call.i, b.perm, Writable(b.perm) \/ ~r.ok, r.bases)
            /\ call' = [call EXCEPT !.i = @ + 1, !.verified = r.ok]
            /\ excused' = excused \cup NoOrph(r)
  /\ UNCHANGED <<mnt, gen, cache, held, calls>>

(* The branches with fhsm that the loop has counted.                       *)
FhsmSeen == {i \in 1 .. call.i - 1 : si.brs[i].perm = "rwf"}

(* Mutant: the first branch with fhsm is taken for the bottom.             *)
FhsmBottomFirst == Min({i \in DOMAIN si.brs : si.brs[i].perm = "rwf"}) - 1

FhsmBottom == Max({i \in DOMAIN si.brs : si.brs[i].perm = "rwf"}) - 1

VerifyEnd ==
  /\ call.pc = "verify" /\ (~call.verified \/ call.i > Len(si.brs))
  /\ LET many == Cardinality(FhsmSeen) >= 2
     IN si' = [si EXCEPT !.fhsm = many, !.bottom = IF many THEN FhsmBottom ELSE -1]
  /\ call' = [call EXCEPT !.pc = "end", !.ok = @ /\ call.verified]
  /\ UNCHANGED <<mnt, gen, cache, held, calls, odd, excused>>

(* Mutant: udba stays as it was set for the time of the mount.             *)
RestoredXinoOnly(s) == {Res(s, TRUE, {})}

(* The default xino (on the first writable branch, or outside) and udba.   *)
Restored(s) ==
  LET wr  == {i \in DOMAIN s.brs : Writable(s.brs[i].perm)}
      d   == IF wr = {} THEN Outside ELSE s.brs[Min(wr)].d
      own == \E i \in DOMAIN Live : Class(Live[i]) = "xino"
      u   == call.tmp.udba
  IN IF ~call.tmp.xino \/ own THEN {Res([s EXCEPT !.udba = u], TRUE, {})}
     ELSE {IF r.ok THEN Res([r.si EXCEPT !.udba = u], TRUE, {}) ELSE r :
             r \in {Odd(s, {})} \cup XinoSet([s EXCEPT !.brid = IF d = Outside THEN None ELSE d], d, FALSE)}

EndMount ==
  /\ call.pc = "end" /\ call.kind = "mount" /\ call.ok
  /\ \E r \in Restored(si) :
       /\ r.odd => odd < MaxOdd
       /\ odd' = odd + IF r.odd THEN 1 ELSE 0
       /\ si' = r.si
       /\ IF r.ok THEN mnt' = TRUE /\ call' = [call EXCEPT !.pc = "idle"] /\ held' = held - OptsFree(call.opts)
          ELSE call' = [call EXCEPT !.ok = FALSE] /\ UNCHANGED <<mnt, held>>
  /\ UNCHANGED <<gen, cache, calls, excused>>

(* Mutant: only a mount that succeeds frees its options.                   *)
MountFailsUnfreed ==
  /\ call.kind = "mount"
  /\ \/ call.pc \in {"simple", "br", "xino", "end"} /\ ~call.ok
     \/ PassOver("br") /\ si.brs = <<>>
  /\ excused' = excused \cap {"refs"}
  /\ si' = NewSi /\ call' = [NoCall EXCEPT !.ok = FALSE]
  /\ UNCHANGED <<mnt, gen, cache, held, calls, odd>>

(* A mount that fails frees its options, then the branches.                *)
MountFails ==
  /\ call.kind = "mount"
  /\ \/ call.pc \in {"simple", "br", "xino", "end"} /\ ~call.ok
     \/ PassOver("br") /\ si.brs = <<>>
  /\ held' = held - OptsFree(call.opts)
  /\ excused' = excused \cap {"refs"}
  /\ si' = NewSi /\ call' = [NoCall EXCEPT !.ok = FALSE]
  /\ UNCHANGED <<mnt, gen, cache, calls, odd>>

(* The rest of aufs_remount_fs, after an error as well; without options it *)
(* only verifies.                                                          *)
EndRemount ==
  /\ call.pc = "end" /\ call.kind = "remount"
  /\ gen' = IF call.raw # <<>> /\ (call.fl \cap {"REFRESH", "UDBA"} # {} \/ si.xino) THEN gen + 1 ELSE gen
  /\ held' = held - OptsFree(call.opts)
  /\ \E trunc \in IF "TRUNC_XIB" \in call.fl /\ si.xino /\ odd < MaxOdd THEN BOOLEAN ELSE {TRUE} :
       /\ call' = [call EXCEPT !.pc = "idle", !.ok = @ /\ trunc]
       /\ odd' = odd + IF trunc THEN 0 ELSE 1
  /\ UNCHANGED <<mnt, si, cache, calls, excused>>

(* Between two calls a dentry is looked up.                                *)
Lookup ==
  /\ mnt /\ call.pc = "idle"
  /\ cache' = [gen |-> gen, view |-> View(si)]
  /\ UNCHANGED <<mnt, si, call, gen, held, calls, odd, excused>>

Next ==
  \/ \E str \in MountStrs : Start("mount", str)
  \/ \E str \in RemountStrs : Start("remount", str)
  \/ Parse \/ ParseFails \/ PageFull \/ ParseEnd
  \/ Lock \/ LockRefused \/ Exec \/ ToBranches \/ ToXino \/ ToVerify \/ Verify \/ VerifyEnd
  \/ EndMount \/ MountFails \/ EndRemount \/ Lookup

Spec == Init /\ [][Next]_vars

-----------------------------------------------------------------------------
Quiet == mnt /\ call.pc = "idle"

(* After a mount or remount whose verification passed, also one that       *)
(* stopped at an error, every branch has the bases that its permission and *)
(* the plink option ask for (au_opts_verify, au_wh_init); and fhsm is on   *)
(* exactly when two branches have it, its bottom being the lowest of them. *)
VerifiedMatches ==
  Quiet /\ call.verified /\ call.kind # "none" =>
    LET ig == IF "orph" \in excused THEN {"orph"} ELSE {}
        f  == {i \in DOMAIN si.brs : si.brs[i].perm = "rwf"}
    IN /\ \A i \in DOMAIN si.brs :
            si.brs[i].bases \ ig = FullBases(si, si.brs[i].perm) \ ig
       /\ si.fhsm <=> Cardinality(f) >= 2
       /\ si.bottom = IF si.fhsm THEN Max(f) - 1 ELSE -1

(* While the XINO flag is set the bitmap, the generations and the table of *)
(* every branch are open, and without it none is; a change of the xino     *)
(* file that failed at any of its steps (au_xino_set) suspends this only   *)
(* until noxino or the next path, whatever branches have come and gone in  *)
(* between.  And si_xino_brid names a branch, the one whose directory has  *)
(* the xino file (notifications for it are ignored), through deletion and  *)
(* re-adding.                                                              *)
XinoWhole ==
  Quiet => \/ "torn" \in excused
           \/ /\ si.xino <=> si.xib # None
              /\ si.xino <=> si.xigen # None
              /\ \A i \in DOMAIN si.brs : si.brs[i].xf = si.xino
              /\ si.brid # None => si.brid \in Dirs(si) /\ si.xib = si.brid

(* A cached dentry whose generation is current was looked up with the      *)
(* branches of now, also after a remount that failed half way.             *)
CacheFresh ==
  Quiet /\ "nested" \notin excused /\ cache # None /\ cache.gen = gen => cache.view = View(si)

(* The parser and au_opts_free, which are told apart by the types of the   *)
(* entries, agree: at whichever point of parsing, locking, mounting or     *)
(* remounting the call has ended, as many references have been put back    *)
(* as were taken, unless the page was full, an entry in the middle became  *)
(* a tail (fhsm_sec without sysaufs) or the lock was refused: there the    *)
(* code does not.                                                          *)
RefsReleased == call.pc = "idle" /\ "refs" \notin excused => held = 0

(* A mount or remount that returned success has put in force the last      *)
(* option about each thing, whatever came before it in the string.         *)
SameThing(o, q) ==
  \/ Class(o) = "xino" /\ Class(q) = "xino"
  \/ Class(o) = "br" /\ Class(q) = "br" /\ o.d = q.d
  \/ {o.t, q.t} \subseteq {"plink", "noplink"}
  \/ o.t = "udba" /\ q.t = "udba"

InEffect(s, o) ==
  /\ Class(o) = "xino" => s.xino = (o.t = "xino") /\ s.xib = (IF o.t = "xino" THEN o.d ELSE None)
  /\ o.t \in {"plink", "noplink"} => s.plink = (o.t = "plink")
  /\ o.t = "udba" => s.udba = o.p
  /\ Class(o) = "br" /\ o.t # "mod" => (o.d \in Dirs(s)) = (o.t # "del")
  /\ o.t = "mod" /\ o.d \in Dirs(s) => s.brs[FindDbindex(s, o.d)].perm = o.p

InForce ==
  Quiet /\ call.ok /\ call.kind # "none" /\ "force" \notin excused =>
    \A j \in DOMAIN call.opts :
      (\A k \in DOMAIN call.opts : k > j => ~SameThing(call.opts[k], call.opts[j]))
        => InEffect(si, call.opts[j])
=============================================================================
