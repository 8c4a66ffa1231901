--------------------------- MODULE MCAsyncDispatch ---------------------------
(***************************************************************************)
(* Small programs with MPI and CUDA tasks.                                 *)
(***************************************************************************)
EXTENDS AsyncDispatch, TLC

\* Three kernels run in a row, the first and the last in one of two streams; what they
\* computed is sent while a message is received; a task of the pool uses both.
MixedSched == <<"cuda", "cuda", "cuda", "mpi", "mpi", "pool">>
MixedPreds == <<{}, {1}, {1, 2}, {3}, {}, {4, 5}>>

\* examples/cuda_mandelbrot.cu: a kernel, then the copy of what it computed.
KernelSched == <<"cuda", "cuda">>
KernelPreds == <<{}, {1}>>

\* A task of the pool, which may wait for an MPI request.
PauseSched == <<"pool">>
PausePreds == <<{}>>
=============================================================================
