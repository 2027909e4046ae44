SPECIFICATION Spec
CONSTANT BufSize = 2
INVARIANT StreamOfThisRequest
