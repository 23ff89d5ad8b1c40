-------------------------------- MODULE MCYPipe --------------------------------
EXTENDS YPipe, TLC

ChunkSymmetry == Permutations(Chunks)
=============================================================================
