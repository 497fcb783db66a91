------------------------------ MODULE RingIdx ------------------------------
(***************************************************************************)
(* Modulo-ring index arithmetic shared by the descriptor ring, the free    *)
(* list and the completion (write-back) ring of a C2H queue.  The macros   *)
(* ring_idx_incr / ring_idx_decr / ring_idx_delta live in qdma_descq.h,    *)
(* which is not part of src/; they are modelled from spec section 4.1.     *)
(* Every operator takes the ring size explicitly.                          *)
(***************************************************************************)
EXTENDS Naturals

\* ring_idx_incr(idx, delta, n): advance idx by delta slots.
RingIdxIncr(idx, delta, n) == (idx + delta) % n

\* ring_idx_decr(idx, delta, n): step idx back by delta slots (delta <= n).
RingIdxDecr(idx, delta, n) == (idx + n - delta) % n

\* ring_idx_delta(p, c, n): slots between consumer c and producer p.
RingIdxDelta(p, c, n) == (p + n - c) % n

\* The set of indices visited going forward from c up to, excluding, p.
RingSpan(c, p, n) == { RingIdxIncr(c, k, n) : k \in 0 .. RingIdxDelta(p, c, n) - 1 }

=============================================================================
