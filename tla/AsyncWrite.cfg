\* Two files of two pages and a ring of one entry, so that a full submission
\* queue is met; file_info->size takes every value up to the file's size.
CONSTANTS
  File = {f1, f2}
  Pages = 2
  BuffSize = 2
  RingSize = 1
SPECIFICATION Spec
INVARIANTS ResumeSafe BuffersSafe 
PROPERTIES ReaperEnds
