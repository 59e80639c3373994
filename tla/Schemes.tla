------------------------------ MODULE Schemes ------------------------------
(***************************************************************************)
(* The factories that put a numerical scheme together from the names in a   *)
(* configuration file: which names they know, for which equation and on     *)
(* which platform, and what the loops over the cells depend on in what they *)
(* build.                                                                   *)
(***************************************************************************)
EXTENDS Integers

Platforms == {"cpu", "cuda"}
Euler     == {"euler1", "euler2", "euler3"}
Equations == Euler \cup {"burgers", "buckleyleverett", "cubic", "linear"}

\* The numerical fluxes listed for an equation.
FluxesOf(equation) == {"central"} \cup
  CASE equation \in Euler             -> {"hll", "hll3", "tecno1", "tecno4", "tecno6"}
    [] equation = "burgers"           -> {"rusanov", "godunov", "roe", "tecno1", "tecno4",
                                          "godunov4", "tecno6", "godunov6"}
    [] equation = "buckleyleverett"   -> {"godunov", "rusanov"}
    [] equation = "cubic"             -> {"roe", "rusanov"}
    [] equation = "linear"            -> {"rusanov", "roe", "upwind"}

\* Half the cells that a flux is computed from.
HalfStencil(flux) ==
  CASE flux \in {"tecno4", "godunov4"} -> 2
    [] flux \in {"tecno6", "godunov6"} -> 3
    [] OTHER                           -> 1

Enos     == {"eno2", "eno3", "eno4"}
Limiters == {"weno2", "mc", "mm"}

\* ReconstructionFactory: what it builds on either platform.
CpuReconstructions(equation) ==
  {"none", "weno3"} \cup Enos \cup Limiters \cup (IF equation \in Euler THEN {"wenof2"} ELSE {})

CudaReconstructions(equation) ==
  {"none"} \cup (IF equation \in Euler \cup {"burgers"} THEN Enos \cup Limiters ELSE {})
           \cup (IF equation \in Euler THEN {"wenof2"} ELSE {})

Reconstructions(platform, equation) ==
  IF platform = "cpu" THEN CpuReconstructions(equation) ELSE CudaReconstructions(equation)

\* getNumberOfGhostCells of a reconstruction; it reads one cell less on either side.
Order(name) ==
  CASE name = "none"             -> 1
    [] name \in {"eno3", "weno3"} -> 3
    [] name = "eno4"             -> 4
    [] OTHER                     -> 2

\* How a reconstruction goes through the cells.
Kind(name) ==
  CASE name = "none"  -> "copy"
    [] name = "weno3" -> "weno"
    [] name \in Enos  -> "eno"
    [] OTHER          -> "limiter"

\* The reconstructions of the entropy variables, and the diffusion operators.
EntropyReconstructions == {"none"} \cup Enos

Diffusions(equation) ==
  {"none"} \cup (IF equation \in Euler \cup {"burgers"} THEN {"tecnoroe", "tecnorusanov"} ELSE {})

\* The number of ghost cells a diffusion operator asks for: none without
\* diffusion, or else what its reconstruction needs.
DiffusionGhosts(diffusion, entropy) == IF diffusion = "none" THEN 0 ELSE Order(entropy)

\* Every scheme that a configuration file can name.
Built == UNION {
  {[platform |-> p, half |-> HalfStencil(f), order |-> Order(r), kind |-> Kind(r),
    diffusion |-> DiffusionGhosts(d, n)] :
     f \in FluxesOf(e), r \in Reconstructions(p, e),
     d \in Diffusions(e), n \in EntropyReconstructions} :
  p \in Platforms, e \in Equations}

\* A flux wider than two cells takes its inputs from `left` only and assumes
\* that nothing was reconstructed (numflux_util.hpp:95); no factory checks it.
\* The diffusion on a GPU is not modelled.
Sound(s) ==
  /\ s.half > 1 => s.kind = "copy"
  /\ s.platform = "cuda" => s.diffusion = 0
=============================================================================
