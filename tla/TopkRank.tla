------------------------------ MODULE TopkRank ------------------------------
(***************************************************************************)
(* FeatureTopkRanking: the topk best of the items fed in, for a topk of at *)
(* least one: with 0 the code asks an empty heap for its top, which is     *)
(* undefined, and Head(<< >>) has no value here either.  An item is its    *)
(* score: SortOut copies its target from a reference that a pop has moved  *)
(* on, so which target comes with a score is not the ranking's to say.     *)
(* _min_heap is a sequence in ascending order, its top is the first.       *)
(***************************************************************************)
EXTENDS Integers, Sequences, SequencesExt

emplace(heap, score) ==
    InsertAt(heap, Max({0} \cup {i \in DOMAIN heap : heap[i] <= score}) + 1, score)

(* A heap whose top is the best. *)
ReplaceWorse(heap, score) ==
    IF Head(heap) > score THEN emplace(Tail(heap), score) ELSE heap

Replace(heap, score) ==
    IF Head(heap) < score THEN emplace(Tail(heap), score) ELSE heap

(* FeedIn(Feature): a feature that found room goes on to be compared, with    *)
(* the top of a heap it is in itself, and may be there twice after that.      *)
FeedFeature(heap, score, topk) ==
    Replace(IF Len(heap) < topk THEN emplace(heap, score) ELSE heap, score)

(* FeedIn(FeatureSearchItem). *)
FeedItem(heap, score, topk) ==
    IF Len(heap) < topk THEN emplace(heap, score) ELSE Replace(heap, score)

FeedFeatures(scores, topk) ==
    LET heaps[n \in 0..Len(scores)] ==
            IF n = 0 THEN << >> ELSE FeedFeature(heaps[n - 1], scores[n], topk)
    IN  heaps[Len(scores)]

FeedItems(heap, scores, topk) ==
    LET heaps[n \in 0..Len(scores)] ==
            IF n = 0 THEN heap ELSE FeedItem(heaps[n - 1], scores[n], topk)
    IN  heaps[Len(scores)]

(* `item' is a reference to the top, which is the next one after the pop; the *)
(* last is read from where it was.                                            *)
SortOut(heap) ==
    IF heap = << >> THEN << >> ELSE Reverse(Append(Tail(heap), Last(heap)))
===============================================================================
