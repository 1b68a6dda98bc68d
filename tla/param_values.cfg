SPECIFICATION Spec
CONSTANTS None = None
          v1 = v1
          v2 = v2
          w1 = w1
          Values <- MCValues
          Word <- MCWord
          Nameless <- MCNameless
          Kinds <- AllKinds
INVARIANTS ReplyOwnValue  
