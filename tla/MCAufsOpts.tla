----------------------------- MODULE MCAufsOpts -----------------------------
(* Three directories; strings of up to three options that depend on each   *)
(* other.                                                                  *)
EXTENDS AufsOpts, TLC

CONSTANTS dirA, dirB, dirC

MCDir == {dirA, dirB, dirC}
X(d)  == O("xino", d, "")
S(t)  == O(t, None, "")
U(p)  == O("udba", None, p)
AddAt(d, p, n) == [O("add", d, p) EXCEPT !.n = n]

MCMountStrs ==
  {<<O("br", dirA, ""), O("br", dirB, "ro")>>, <<O("br", dirA, "rwf"), O("br", dirB, "rwf"), U("notify")>>,
   <<O("br", dirA, "nolwh"), S("noplink"), X(dirA)>>, <<S("noxino"), O("br", dirA, ""), O("br", dirB, "")>>,
   <<O("br", dirB, "ro"), O("br", dirB, "ro")>>, <<S("plink")>>,
   <<O("br", dirA, ""), O("del", dirB, "")>>}

MCRemountStrs ==
  {<<>>, <<S("ignore")>>, <<O("prepend", dirC, "")>>, <<O("append", dirC, "rwf")>>, <<AddAt(dirC, "ro", 2), S("trunc_xib")>>,
   <<O("del", dirA, ""), O("mod", dirB, "rw")>>, <<O("mod", dirA, "ro"), O("mod", dirB, "rw"), X(dirB)>>,
   <<O("mod", dirA, "nolwh"), S("noplink")>>, <<O("mod", dirA, "rw"), S("plink"), U("none")>>,
   <<O("mod", dirB, "ro")>>, <<O("mod", dirB, "rwf"), O("trunc_path", dirB, "")>>,
   <<X(dirA)>>, <<S("noxino"), O("append", dirC, "")>>, <<X(Outside), O("del", dirB, "")>>,
   <<S("wbr_create"), U("reval")>>, <<O("mod", dirB, "rw"), S("unknown")>>,
   <<S("fhsm_ignored"), O("del", dirB, "")>>, <<S("ignore"), O("append", dirA, "ro")>>,
   <<O("add", dirC, ""), S("plink"), S("plink"), O("del", dirC, "")>>}
=============================================================================
